---- MODULE Spec2Model ----
(***************************************************************************)
(* Exception Resolution Pipeline of invoice-local-analyzer.                *)
(*                                                                         *)
(* The module holds one state machine per component of the pipeline:       *)
(*   SpecGemma    callGemmaApi           (inference client, retry loop)    *)
(*   SpecParse    the response parser of analyzeInvoicesWithGemma          *)
(*   SpecPlan     prepareUpdatePlan      (confidence-gated planner)        *)
(*   SpecUpdate   executeDatabaseUpdates (guarded conditional writes)      *)
(*   SpecExtract  extractTextFromPdf     (evidence extractor, one call)    *)
(*   SpecAnalyze  analyzeInvoicesWithGemma with extractTextFromPdf and     *)
(*                constructGemmaPrompt                                     *)
(*   SpecCycle    runAnalysisCycle inside mainAppLoop (what the analysis   *)
(*                program does to the Invoices collection)                 *)
(*   SpecScript   runDbUpdateScript (from the results file to the writes)  *)
(*   SpecRerun    executeDatabaseUpdates run twice on the same plan        *)
(* Each specification moves the variables of its component and leaves the  *)
(* variables of the other components at their idle values.                 *)
(***************************************************************************)
EXTENDS Integers, Sequences, FiniteSets, TLC

VARIABLES
    \* ---- callGemmaApi
    g_pc,          \* "loop" | "waiting" | "done" ("off": component idle)
    genAI,         \* TRUE when the SDK client was constructed
    attempts,      \* let attempts (failed attempts so far)
    currentDelay,  \* let currentDelay, ms
    g_calls,       \* number of model.generateContent calls made
    g_hist,        \* the service outcomes received, in order
    g_waits,       \* the durations passed to delay(), in order
    g_result,      \* the returned string
    \* ---- prepareUpdatePlan
    p_pc,            \* "read" | "planned" ("off": component idle)
    analysisResults, \* the parsed analysisResults.json: entries in key order
    updatePlan,      \* the returned plan
    \* ---- executeDatabaseUpdates and the Invoices collection
    u_pc,            \* "loop" | "done" ("off": component idle)
    store,           \* the documents of the collection, in natural order
    u_plan,          \* the updatePlan argument
    mode,            \* 'all' | 'first'
    u_k,             \* number of items of itemsToUpdate processed
    successCount,
    failureCount,
    failedUpdates,
    u_log,           \* per processed item: what updateOne met and did
    u_ext,           \* number of modifications made by other clients
    \* ---- the response parser (analyzeInvoicesWithGemma, one response)
    r_pc,            \* "received" | "stored" ("off": component idle)
    gemmaResponse,   \* the string callGemmaApi returned, as a sequence of tokens
    r_stored,        \* the entry written to analysisResults
    \* ---- analyzeInvoicesWithGemma (one run over a candidate list)
    a_pc,                \* "record" | "delaying" | "extracting" | "inferring"
                         \* | "persist" | "done" | "aborted" ("off": idle)
    invoicesToAnalyze,   \* the candidate list: records [doc, reportType]
    include_pdf_content, \* analysisConfig.include_pdf_content
    a_i,                 \* the loop index i, counted from 0 as in the code
    a_results,           \* the analysisResults object: key -> result
    a_file,              \* what writeAnalysisResultsToFile wrote (<<>>: not written)
    a_log,               \* what the run did, in order
    \* ---- extractTextFromPdf (one call)
    x_pc,                \* "called" | "returned" ("off": idle)
    x_call,              \* the call: kind of input, pages of the PDF, environment
    x_ret,               \* what the call returned and left behind
    \* ---- runAnalysisCycle inside mainAppLoop
    c_pc,                \* "inputs" | "fetching" | "fetched" | "ended" | "closed"
                         \* ("off": idle)
    c_cycle,             \* number of the cycle of mainAppLoop
    cycleInputs,         \* what getUserInputsForCycle returned
    c_store,             \* the documents of the Invoices collection
    c_k,                 \* number of selected options fetched
    fetchedDataByOption, \* per fetched option: the documents found
    c_ops,               \* the operations the cycle issued on the collection
    c_out,               \* the delete queries the cycle printed
    \* ---- runDbUpdateScript
    s_pc,                \* "start" | "asking" | "executing" | "finished" ("off": idle)
    s_file,              \* analysisResults.json: whether it can be read and
                         \* parsed, and its entries
    s_plan,              \* const updatePlan
    s_answers,           \* what the user answered to the prompts of
                         \* askForUpdateExecution, and what it returned
    s_writes,            \* the items for which updateOne was issued
    \* ---- executeDatabaseUpdates called twice with the same plan and mode
    n_pc,                \* "run" | "done" ("off": idle)
    n_store,             \* the documents of the collection
    n_plan,              \* the updatePlan argument of both calls
    n_mode,              \* the mode argument of both calls
    n_runs               \* per finished call: the collection before and after it,
                         \* whether an error was caught, how many documents it modified

gemmaVars == <<g_pc, genAI, attempts, currentDelay, g_calls, g_hist, g_waits, g_result>>

planVars == <<p_pc, analysisResults, updatePlan>>

updateVars == <<u_pc, store, u_plan, mode, u_k, successCount, failureCount,
                failedUpdates, u_log, u_ext>>

parseVars == <<r_pc, gemmaResponse, r_stored>>

analyzeVars == <<a_pc, invoicesToAnalyze, include_pdf_content, a_i, a_results, a_file, a_log>>

extractVars == <<x_pc, x_call, x_ret>>

cycleVars == <<c_pc, c_cycle, cycleInputs, c_store, c_k, fetchedDataByOption, c_ops, c_out>>

scriptVars == <<s_pc, s_file, s_plan, s_answers, s_writes>>

rerunVars == <<n_pc, n_store, n_plan, n_mode, n_runs>>

vars == <<gemmaVars, planVars, updateVars, parseVars, analyzeVars, extractVars, cycleVars, scriptVars, rerunVars>>

notGemmaVars == <<planVars, updateVars, parseVars, analyzeVars, extractVars, cycleVars, scriptVars, rerunVars>>
notPlanVars == <<gemmaVars, updateVars, parseVars, analyzeVars, extractVars, cycleVars, scriptVars, rerunVars>>
notUpdateVars == <<gemmaVars, planVars, parseVars, analyzeVars, extractVars, cycleVars, scriptVars, rerunVars>>
notParseVars == <<gemmaVars, planVars, updateVars, analyzeVars, extractVars, cycleVars, scriptVars, rerunVars>>
notAnalyzeVars == <<gemmaVars, planVars, updateVars, parseVars, extractVars, cycleVars, scriptVars, rerunVars>>
notExtractVars == <<gemmaVars, planVars, updateVars, parseVars, analyzeVars, cycleVars, scriptVars, rerunVars>>
notCycleVars == <<gemmaVars, planVars, updateVars, parseVars, analyzeVars, extractVars, scriptVars, rerunVars>>
notScriptVars == <<gemmaVars, planVars, updateVars, parseVars, analyzeVars, extractVars, cycleVars, rerunVars>>
notRerunVars == <<gemmaVars, planVars, updateVars, parseVars, analyzeVars, extractVars, cycleVars,
                  scriptVars>>

\* JavaScript null / undefined
Null == "null"
Undefined == "undefined"

\* a JavaScript string field is truthy unless missing, null or empty
Truthy(v) == v \notin {Undefined, Null, ""}

\* JavaScript values of untyped fields (what JSON.parse can yield)
JsUndefined == [t |-> "undefined"]
JsNull == [t |-> "null"]
JsNumber(n) == [t |-> "number", n |-> n, half |-> FALSE]
\* the non-integer number n + 0.5
JsNumberAndHalf(n) == [t |-> "number", n |-> n, half |-> TRUE]
JsString(str) == [t |-> "string", s |-> str]

\* typeof v === 'number'
IsNumber(v) == v.t = "number"

IdleGemma ==
    /\ g_pc = "off" /\ genAI = FALSE /\ attempts = 0 /\ currentDelay = 0
    /\ g_calls = 0 /\ g_hist = <<>> /\ g_waits = <<>>
    /\ g_result = [kind |-> "none", carries |-> Null]

IdlePlan == p_pc = "off" /\ analysisResults = <<>> /\ updatePlan = <<>>

IdleUpdate ==
    /\ u_pc = "off" /\ store = <<>> /\ u_plan = <<>> /\ mode = "off" /\ u_k = 0
    /\ successCount = 0 /\ failureCount = 0 /\ failedUpdates = <<>>
    /\ u_log = <<>> /\ u_ext = 0

IdleParse ==
    /\ r_pc = "off" /\ gemmaResponse = <<>>
    /\ r_stored = [reason_from_gemma |-> <<>>, suggested_fix_data |-> JsNull]

IdleExtract == x_pc = "off" /\ x_call = <<>> /\ x_ret = <<>>

IdleScript ==
    /\ s_pc = "off" /\ s_file = [readable |-> FALSE, entries |-> <<>>] /\ s_plan = <<>>
    /\ s_answers = [asked |-> FALSE, proceed |-> FALSE, mode |-> "none",
                    choice |-> [proceed |-> FALSE, mode |-> "null"]]
    /\ s_writes = <<>>

IdleRerun ==
    n_pc = "off" /\ n_store = <<>> /\ n_plan = <<>> /\ n_mode = "off" /\ n_runs = <<>>

IdleCycle ==
    /\ c_pc = "off" /\ c_cycle = 0 /\ cycleInputs = <<>> /\ c_store = <<>> /\ c_k = 0
    /\ fetchedDataByOption = <<>> /\ c_ops = <<>> /\ c_out = <<>>

IdleAnalyze ==
    /\ a_pc = "off" /\ invoicesToAnalyze = <<>> /\ include_pdf_content = FALSE
    /\ a_i = 0 /\ a_results = <<>> /\ a_file = <<>> /\ a_log = <<>>

(***************************************************************************)
(* callGemmaApi                                                            *)
(***************************************************************************)
MAX_RETRIES == 3
DEFAULT_DELAY_MS == 60000

\* retryDelay values (seconds) an error message of the service may carry
MaxRetryDelayS == 7
RetryDelays == {0, MaxRetryDelayS}

\* What one call of model.generateContent / response.text() can produce.
\* An error is described by what the catch block reads from it:
\*   rl          message contains "429" or "quota"
\*   retryDelay  <<N>> for "retryDelay":"Ns" in the message, <<>> without one
\*   block       error.response.promptFeedback.blockReason is set
\*   id          which error it is (stands for error.message / blockReason)
ServiceOutcomes ==
    [kind : {"ok"}, text : {"r1", "r2"}]
    \cup [kind : {"err"}, rl : BOOLEAN, retryDelay : {<<>>} \cup {<<d>> : d \in RetryDelays},
          block : BOOLEAN, id : {"e1", "e2"}]

\* error.message.includes("429") || error.message.toLowerCase().includes("quota")
isRateLimitError(o) == o.rl

\* parseInt(retryDelayMatch[1], 10) * 1000 as <<ms>>, or <<>> for null
specificRetryDelay(o) ==
    IF isRateLimitError(o) /\ o.retryDelay # <<>> THEN <<o.retryDelay[1] * 1000>> ELSE <<>>

\* error.response.promptFeedback.blockReason
isSafetyBlock(o) == o.block

ShouldRetry_NoCap(rl, n) == rl

ShouldRetry_AnyError(rl, n) == n < MAX_RETRIES

\* isRateLimitError && attempts < MAX_RETRIES
ShouldRetry(rl, n) == rl /\ n < MAX_RETRIES

BlockReturns_Retry(o) == FALSE

\* the early return of the blocked result
BlockReturns(o) == isSafetyBlock(o)

\* const waitTime = specificRetryDelay || currentDelay
waitTime(o, cur) ==
    IF specificRetryDelay(o) # <<>> /\ specificRetryDelay(o)[1] # 0
    THEN specificRetryDelay(o)[1] ELSE cur

\* the strings callGemmaApi returns
NoResult == [kind |-> "none", carries |-> Null]
TextResult(t) == [kind |-> "text", carries |-> t]
NotInitializedResult == [kind |-> "not_initialized", carries |-> Null]
BlockedResult(o) == [kind |-> "blocked", carries |-> o.id]
FailedAfterMaxResult(o) == [kind |-> "failed_after_max", carries |-> o.id]
FailedResult(o) == [kind |-> "failed", carries |-> o.id]
ExhaustiveResult == [kind |-> "failed_exhaustively", carries |-> Null]

InitGemma ==
    /\ g_pc = "start"
    /\ genAI \in BOOLEAN
    /\ attempts = 0
    /\ currentDelay = DEFAULT_DELAY_MS
    /\ g_calls = 0
    /\ g_hist = <<>>
    /\ g_waits = <<>>
    /\ g_result = NoResult

\* if (!genAI) return `Error: ...`; otherwise enter the retry loop
GemmaEnter ==
    /\ g_pc = "start"
    /\ IF genAI
       THEN g_pc' = "loop" /\ g_result' = g_result
       ELSE g_pc' = "done" /\ g_result' = NotInitializedResult
    /\ UNCHANGED <<genAI, attempts, currentDelay, g_calls, g_hist, g_waits>>
    /\ UNCHANGED notGemmaVars

\* one iteration of while (attempts < MAX_RETRIES): the call, and the catch block
\* up to its return or its await delay(waitTime)
GemmaAttempt ==
    /\ g_pc = "loop"
    /\ attempts < MAX_RETRIES
    /\ \E o \in ServiceOutcomes :
        /\ g_calls' = g_calls + 1
        /\ g_hist' = Append(g_hist, o)
        /\ IF o.kind = "ok"
           THEN /\ g_result' = TextResult(o.text)
                /\ g_pc' = "done"
                /\ UNCHANGED <<attempts, g_waits>>
           ELSE /\ attempts' = attempts + 1
                /\ IF BlockReturns(o)
                   THEN g_result' = BlockedResult(o) /\ g_pc' = "done" /\ g_waits' = g_waits
                   ELSE IF ShouldRetry(isRateLimitError(o), attempts')
                   THEN /\ g_waits' = Append(g_waits, waitTime(o, currentDelay))
                        /\ g_pc' = "waiting"
                        /\ g_result' = g_result
                   ELSE IF attempts' >= MAX_RETRIES
                   THEN g_result' = FailedAfterMaxResult(o) /\ g_pc' = "done" /\ g_waits' = g_waits
                   ELSE g_result' = FailedResult(o) /\ g_pc' = "done" /\ g_waits' = g_waits
    /\ UNCHANGED <<genAI, currentDelay>>
    /\ UNCHANGED notGemmaVars

\* the delay elapsed: currentDelay *= 2; continue; the loop condition is evaluated
\* again, and the statement after the loop returns when it is false
GemmaWaitDone ==
    /\ g_pc = "waiting"
    /\ currentDelay' = currentDelay * 2
    /\ IF attempts < MAX_RETRIES
       THEN g_pc' = "loop" /\ g_result' = g_result
       ELSE g_pc' = "done" /\ g_result' = ExhaustiveResult
    /\ UNCHANGED <<genAI, attempts, g_calls, g_hist, g_waits>>
    /\ UNCHANGED notGemmaVars

NextGemma == GemmaEnter \/ GemmaAttempt \/ GemmaWaitDone

\* the event loop runs the pending continuation: a service call settles, a timer fires
InitSpecGemma == InitGemma /\ IdlePlan /\ IdleUpdate /\ IdleParse /\ IdleAnalyze /\ IdleExtract /\ IdleCycle /\ IdleScript /\ IdleRerun

SpecGemma == InitSpecGemma /\ [][NextGemma]_vars /\ WF_vars(NextGemma)

GemmaDone == g_pc = "done"
LastOutcome == g_hist[Len(g_hist)]

\* C5: for every sequence of service outcomes one call of callGemmaApi makes at
\* most 3 attempts on the service and terminates; what it returns is the response
\* text of the successful attempt or a failure string, and when the 3 attempts
\* are exhausted the failure string carries the error of the last attempt.
C5_AtMostThreeAttemptsThenReturns ==
    /\ [](g_calls <= MAX_RETRIES)
    /\ <>GemmaDone
    /\ [](GemmaDone =>
            /\ g_result.kind \in {"text", "not_initialized", "blocked",
                                  "failed_after_max", "failed"}
            /\ (g_result.kind = "text") =
                   (g_calls > 0 /\ LastOutcome.kind = "ok")
            /\ g_result.kind = "text" => g_result.carries = LastOutcome.text
            /\ (g_calls > 0 /\ LastOutcome.kind = "err") => g_result.carries = LastOutcome.id
            /\ (g_calls = MAX_RETRIES /\ LastOutcome.kind = "err")
                   => g_result.kind \in {"failed_after_max", "blocked"})

\* three rate-limited attempts, then the failure string of the exhausted call
C5_Witness ==
    /\ GemmaDone
    /\ g_calls = MAX_RETRIES
    /\ g_result.kind = "failed_after_max"
    /\ \A i \in 1..Len(g_hist) : g_hist[i].kind = "err" /\ g_hist[i].rl

\* C6 as stated: a call that ends with the safety-blocked result made exactly
\* 1 attempt on the inference service.
C6_BlockedCallMadeOneAttempt ==
    (GemmaDone /\ g_result.kind = "blocked") => g_calls = 1

\* C6 amended: a content-safety block signal is never retried. The attempt that
\* receives it is the last attempt of the call, the blocked result carrying its
\* reason is returned at once, and every earlier attempt of that call (there
\* are at most 2) was a rate-limit error that was retried.
C6_BlockNeverRetried ==
    /\ \A i \in 1..Len(g_hist) :
           (g_hist[i].kind = "err" /\ g_hist[i].block) =>
               /\ i = Len(g_hist)
               /\ GemmaDone
               /\ g_result = BlockedResult(g_hist[i])
    /\ (GemmaDone /\ g_result.kind = "blocked") =>
           /\ g_calls \in 1..MAX_RETRIES
           /\ LastOutcome.kind = "err" /\ LastOutcome.block
           /\ \A i \in 1..(Len(g_hist) - 1) : g_hist[i].kind = "err" /\ g_hist[i].rl
           /\ Len(g_waits) = g_calls - 1

\* a block that arrives on the second attempt, after one rate-limit retry
C6_Witness ==
    /\ GemmaDone
    /\ g_result.kind = "blocked"
    /\ g_calls = 2

\* the waits of the call that followed an error with no retryDelay, before wait k
UnsuggestedBefore(k) == Cardinality({j \in 1..(k - 1) : g_hist[j].retryDelay = <<>>})

\* C18: the wait before a retry is the duration the error suggests when it
\* suggests one; otherwise it is 60s for the first retry without a suggestion
\* and doubles on each later one. At most 2 waits happen per call and no wait
\* happens after the third failed attempt.
C18_WaitIsSuggestedOrDoubledDefault ==
    /\ Len(g_waits) <= MAX_RETRIES - 1
    /\ g_pc = "waiting" => g_calls < MAX_RETRIES
    /\ \A k \in 1..Len(g_waits) :
         IF g_hist[k].retryDelay # <<>>
         THEN g_waits[k] = g_hist[k].retryDelay[1] * 1000
         ELSE g_waits[k] = (IF UnsuggestedBefore(k) = 0 THEN DEFAULT_DELAY_MS
                            ELSE 2 * DEFAULT_DELAY_MS)

\* an error that is neither a rate-limit signal nor a safety block
OtherError(o) == o.kind = "err" /\ ~o.rl /\ ~o.block

\* C19: an error that is neither a rate-limit signal nor a safety block is
\* never retried: the attempt on which it occurs is the last attempt of the
\* call, no wait follows it, and the call returns a failure string carrying
\* that error ("failed after 3 attempts" when it was the third attempt).
C19_OtherErrorIsTerminal ==
    \A i \in 1..Len(g_hist) :
        OtherError(g_hist[i]) =>
            /\ i = Len(g_hist)
            /\ g_calls = i
            /\ GemmaDone
            /\ Len(g_waits) = i - 1
            /\ g_result.kind = (IF i >= MAX_RETRIES THEN "failed_after_max" ELSE "failed")
            /\ g_result.carries = g_hist[i].id

\* a rate-limited first attempt was retried and the second attempt failed with
\* another error, which ended the call
C19_Witness ==
    /\ GemmaDone
    /\ g_calls = 2
    /\ g_hist[1].rl
    /\ OtherError(g_hist[2])
    /\ g_result = FailedResult(g_hist[2])

(***************************************************************************)
(* prepareUpdatePlan                                                       *)
(***************************************************************************)
CONFIDENCE_THRESHOLD == 90

\* values of suggested_fix_data.confidence in an analysis-results file
Confidences ==
    {JsUndefined, JsString("95"), JsNumber(85), JsNumber(CONFIDENCE_THRESHOLD),
     JsNumber(95), JsNumber(150), JsNumberAndHalf(95)}

\* suggested_fix_data: null, a non-object JSON value, or an object
SuggestedFixes ==
    {JsNull, JsNumber(42)}
    \cup [t : {"object"}, ship_to : {Undefined, "", "12 Oak St"}, confidence : Confidences]

\* original_data_snippet
Snippets ==
    {JsUndefined}
    \cup {[t |-> "object", inv_num |-> i, group_id |-> g, ship_to |-> st] :
            <<i, g, st>> \in {<<Undefined, "G1", Undefined>>, <<"I1", Undefined, Undefined>>,
                              <<"I1", "G1", Undefined>>, <<"I1", "G1", "A">>}}

AnalysisResults ==
    [report_type : {"SHIPTOISSUE", "PO_NOT_FOUND"},
     suggested_fix_data : SuggestedFixes,
     original_data_snippet : Snippets]

\* ToNumber of a string operand of >=
StringToNumber(str) == IF str = "95" THEN 95 ELSE 0

\* JavaScript v >= n for an integer n
JsGreaterOrEqual(v, n) ==
    CASE v.t = "number" -> v.n >= n
      [] v.t = "string" -> StringToNumber(v.s) >= n
      [] v.t = "null" -> 0 >= n
      [] OTHER -> FALSE

ConfidenceGate_NoTypeof(c) == JsGreaterOrEqual(c, CONFIDENCE_THRESHOLD)

\* typeof confidence === 'number' && confidence >= CONFIDENCE_THRESHOLD
ConfidenceGate(c) == IsNumber(c) /\ JsGreaterOrEqual(c, CONFIDENCE_THRESHOLD)

\* the condition of the if statement of the loop body
Eligible(result) ==
    /\ result.report_type = "SHIPTOISSUE"
    /\ result.suggested_fix_data.t = "object"
    /\ Truthy(result.suggested_fix_data.ship_to)
    /\ ConfidenceGate(result.suggested_fix_data.confidence)

HasKeys_InvNumOnly(result) ==
    /\ result.original_data_snippet.t = "object"
    /\ Truthy(result.original_data_snippet.inv_num)

\* original_data_snippet && original_data_snippet.inv_num && original_data_snippet.group_id
HasKeys(result) ==
    /\ result.original_data_snippet.t = "object"
    /\ Truthy(result.original_data_snippet.inv_num)
    /\ Truthy(result.original_data_snippet.group_id)

\* the object pushed on updatePlan
UpdatePlanItem(fileName, result) ==
    [file_name |-> fileName,
     group_id |-> result.original_data_snippet.group_id,
     inv_num |-> result.original_data_snippet.inv_num,
     current_ship_to |-> IF Truthy(result.original_data_snippet.ship_to)
                         THEN result.original_data_snippet.ship_to ELSE Null,
     suggested_ship_to |-> result.suggested_fix_data.ship_to,
     confidence |-> result.suggested_fix_data.confidence]

\* for (const fileName in analysisResults) { ... }
RECURSIVE prepareUpdatePlan(_)
prepareUpdatePlan(entries) ==
    IF entries = <<>> THEN <<>>
    ELSE LET e == Head(entries)
         IN (IF Eligible(e.result) /\ HasKeys(e.result)
             THEN <<UpdatePlanItem(e.file_name, e.result)>> ELSE <<>>)
            \o prepareUpdatePlan(Tail(entries))

FileNames == <<"a.pdf", "b.pdf">>

InitPlan ==
    /\ p_pc = "read"
    /\ \E n \in 1..Len(FileNames) :
         \E rs \in [1..n -> AnalysisResults] :
            analysisResults = [k \in 1..n |-> [file_name |-> FileNames[k], result |-> rs[k]]]
    /\ updatePlan = <<>>

PlanPrepare ==
    /\ p_pc = "read"
    /\ updatePlan' = prepareUpdatePlan(analysisResults)
    /\ p_pc' = "planned"
    /\ UNCHANGED analysisResults
    /\ UNCHANGED notPlanVars

NextPlan == PlanPrepare

InitSpecPlan == InitPlan /\ IdleGemma /\ IdleUpdate /\ IdleParse /\ IdleAnalyze /\ IdleExtract /\ IdleCycle /\ IdleScript /\ IdleRerun

SpecPlan == InitSpecPlan /\ [][NextPlan]_vars

\* the entry of analysisResults stored under a file name
EntriesOf(fileName) ==
    {k \in 1..Len(analysisResults) : analysisResults[k].file_name = fileName}
ItemsOf(fileName) ==
    {j \in 1..Len(updatePlan) : updatePlan[j].file_name = fileName}

\* C2: every item of the plan comes from a result whose confidence is a number
\* >= 90, and a result whose confidence is below 90, missing or not a number
\* (the string "95") produces no item.
C2_PlanItemsPassConfidenceGate ==
    p_pc = "planned" =>
        /\ \A j \in 1..Len(updatePlan) :
             \E k \in EntriesOf(updatePlan[j].file_name) :
                LET fix == analysisResults[k].result.suggested_fix_data
                IN /\ fix.t = "object"
                   /\ fix.confidence.t = "number"
                   /\ fix.confidence.n >= CONFIDENCE_THRESHOLD
                   /\ updatePlan[j].confidence = fix.confidence
        /\ \A k \in 1..Len(analysisResults) :
             LET fix == analysisResults[k].result.suggested_fix_data
             IN (\/ fix.t # "object"
                 \/ fix.confidence.t # "number"
                 \/ fix.confidence.n < CONFIDENCE_THRESHOLD)
                => ItemsOf(analysisResults[k].file_name) = {}

\* a plan of one item, made from two results that differ only in the confidence:
\* 95 gives the item, the string "95" gives none
C2_Witness ==
    /\ p_pc = "planned"
    /\ Len(analysisResults) = 2
    /\ Len(updatePlan) = 1
    /\ analysisResults[1].result.suggested_fix_data.t = "object"
    /\ analysisResults[2].result.suggested_fix_data.t = "object"
    /\ analysisResults[1].result.suggested_fix_data.confidence = JsString("95")
    /\ analysisResults[2].result.suggested_fix_data.confidence = JsNumber(95)
    /\ analysisResults[1].result =
         [analysisResults[2].result EXCEPT !.suggested_fix_data.confidence = JsString("95")]

\* whether the result passes every test of the if statement of lines 177-183
PassesEligibility(result) ==
    /\ result.report_type = "SHIPTOISSUE"
    /\ result.suggested_fix_data.t = "object"
    /\ result.suggested_fix_data.ship_to \notin {Undefined, Null, ""}
    /\ result.suggested_fix_data.confidence.t = "number"
    /\ result.suggested_fix_data.confidence.n >= CONFIDENCE_THRESHOLD

\* C13: every item of the plan has a non-empty group_id and a non-empty inv_num
\* taken from the original_data_snippet of its result, the result has
\* report_type SHIPTOISSUE, and the item has a non-empty suggested ship_to; a
\* result that passes the confidence gate but lacks group_id or inv_num (or the
\* whole snippet) produces no item.
C13_PlanItemsCarryIdentifyingKeys ==
    p_pc = "planned" =>
        /\ \A j \in 1..Len(updatePlan) :
             /\ updatePlan[j].group_id \notin {Undefined, Null, ""}
             /\ updatePlan[j].inv_num \notin {Undefined, Null, ""}
             /\ updatePlan[j].suggested_ship_to \notin {Undefined, Null, ""}
             /\ \E k \in EntriesOf(updatePlan[j].file_name) :
                  LET result == analysisResults[k].result
                  IN /\ result.report_type = "SHIPTOISSUE"
                     /\ result.original_data_snippet.t = "object"
                     /\ updatePlan[j].group_id = result.original_data_snippet.group_id
                     /\ updatePlan[j].inv_num = result.original_data_snippet.inv_num
                     /\ updatePlan[j].suggested_ship_to = result.suggested_fix_data.ship_to
        /\ \A k \in 1..Len(analysisResults) :
             LET result == analysisResults[k].result
                 snippet == result.original_data_snippet
             IN IF \/ snippet.t # "object"
                   \/ snippet.group_id \in {Undefined, Null, ""}
                   \/ snippet.inv_num \in {Undefined, Null, ""}
                   \/ ~PassesEligibility(result)
                THEN ItemsOf(analysisResults[k].file_name) = {}
                ELSE Cardinality(ItemsOf(analysisResults[k].file_name)) = 1

\* two results that pass the gate: the one with both keys gives the only item
\* of the plan, the one without group_id gives none
C13_Witness ==
    /\ p_pc = "planned"
    /\ Len(analysisResults) = 2
    /\ PassesEligibility(analysisResults[1].result)
    /\ PassesEligibility(analysisResults[2].result)
    /\ analysisResults[1].result.original_data_snippet.t = "object"
    /\ analysisResults[1].result.original_data_snippet.group_id = Undefined
    /\ analysisResults[2].result.original_data_snippet.t = "object"
    /\ analysisResults[2].result.original_data_snippet.group_id = "G1"
    /\ analysisResults[2].result.original_data_snippet.inv_num = "I1"
    /\ Len(updatePlan) = 1
    /\ updatePlan[1].file_name = analysisResults[2].file_name

\* the confidence is an integer within the range given
IntegerWithin(c, low, high) == c.t = "number" /\ ~c.half /\ c.n >= low /\ c.n <= high

\* C26: every item of the plan has a confidence that is an integer in 90..100,
\* and a result whose confidence lies outside 0..100 (150, say) produces no
\* item.
C26_PlanConfidenceIsIntegerInRange ==
    p_pc = "planned" =>
        /\ \A j \in 1..Len(updatePlan) :
              IntegerWithin(updatePlan[j].confidence, CONFIDENCE_THRESHOLD, 100)
        /\ \A k \in 1..Len(analysisResults) :
              LET fix == analysisResults[k].result.suggested_fix_data
              IN (fix.t = "object" /\ fix.confidence.t = "number"
                     /\ (fix.confidence.n > 100 \/ fix.confidence.n < 0))
                 => ItemsOf(analysisResults[k].file_name) = {}

(***************************************************************************)
(* executeDatabaseUpdates                                                  *)
(***************************************************************************)
\* modifications other clients may make while the updater runs
MaxExternalMods == 1
\* length of the update plan
MaxPlanLen == 2

\* values of the ship_to field of a document: missing, "", null, or an address
ShipTos == {Undefined, "", Null, "A", "C"}
Statuses == {"DISPUTED", "APPROVED"}
\* exception types found in exceptions.header of a document
ExceptionSets == {{"PO_NOT_FOUND"}, {"INV_AMOUNT_VARIANCE"}}

InvNums == <<"I1", "I2">>

\* update plan items: for document I1 every combination of a snapshot value and a
\* suggested address, for document I2 one item
PlanItems ==
    [file_name : {"a.pdf"}, group_id : {"G1"}, inv_num : {"I1"},
     current_ship_to : {Null, "A"}, suggested_ship_to : {"A", "B"},
     confidence : {JsNumber(95)}]
    \cup
    [file_name : {"b.pdf"}, group_id : {"G1"}, inv_num : {"I2"},
     current_ship_to : {Null}, suggested_ship_to : {"B"},
     confidence : {JsNumber(95)}]

RECURSIVE SeqsUpTo(_, _)
SeqsUpTo(S, n) ==
    IF n = 0 THEN {<<>>}
    ELSE LET shorter == SeqsUpTo(S, n - 1)
         IN shorter \cup {Append(q, x) : q \in shorter, x \in S}

ShipToGuard_None(doc, item) == TRUE

\* $or: [{ship_to: {$exists: false}}, {ship_to: ""}, {ship_to: null},
\*       {ship_to: item.current_ship_to}]
\* ({ship_to: null} matches a null and a missing field)
ShipToGuard(doc, item) ==
    \/ doc.ship_to = Undefined
    \/ doc.ship_to = ""
    \/ doc.ship_to \in {Null, Undefined}
    \/ IF item.current_ship_to = Null
       THEN doc.ship_to \in {Null, Undefined}
       ELSE doc.ship_to = item.current_ship_to

MatchesFilter_KeysAndShipToOnly(doc, item) ==
    /\ doc.group_id = item.group_id
    /\ doc.inv_num = item.inv_num
    /\ ShipToGuard(doc, item)

\* the filter of the conditional write
MatchesFilter(doc, item) ==
    /\ doc.group_id = item.group_id
    /\ doc.inv_num = item.inv_num
    /\ "PO_NOT_FOUND" \in doc.exception_types
    /\ doc.status = "DISPUTED"
    /\ ShipToGuard(doc, item)

itemsToUpdate_IgnoresMode == u_plan

\* const itemsToUpdate = mode === 'first' ? updatePlan.slice(0, 1) : updatePlan
itemsToUpdate ==
    IF mode = "first" THEN SubSeq(u_plan, 1, IF Len(u_plan) > 0 THEN 1 ELSE 0) ELSE u_plan

FirstMatch_Unfiltered(item) == 1

\* updateOne acts on the first document, in natural order, that matches
FirstMatch(item) ==
    LET ms == {d \in 1..Len(store) : MatchesFilter(store[d], item)}
    IN IF ms = {} THEN 0 ELSE CHOOSE d \in ms : \A e \in ms : d <= e

AfterItem_AbortOnError(k, outcome) ==
    IF outcome = "error" \/ k = Len(itemsToUpdate) THEN "done" ELSE "loop"

\* where the loop stands after the k-th item: the inner catch (lines 332-336)
\* ends the iteration like any other outcome
AfterItem(k, outcome) == IF k = Len(itemsToUpdate) THEN "done" ELSE "loop"

InitUpdate ==
    /\ u_pc = "loop"
    /\ \E st \in {Undefined, "A"} :
         store = [d \in 1..Len(InvNums) |->
                    [group_id |-> "G1", inv_num |-> InvNums[d],
                     exception_types |-> {"PO_NOT_FOUND"}, status |-> "DISPUTED",
                     ship_to |-> IF d = 1 THEN st ELSE Undefined]]
    /\ u_plan \in SeqsUpTo(PlanItems, MaxPlanLen) \ {<<>>}
    /\ mode \in {"all", "first"}
    /\ u_k = 0
    /\ successCount = 0
    /\ failureCount = 0
    /\ failedUpdates = <<>>
    /\ u_log = <<>>
    /\ u_ext = 0

\* one iteration of for (const item of itemsToUpdate): the filter, the awaited
\* updateOne (it may throw), and the branch on matchedCount / modifiedCount
UpdateItem ==
    /\ u_pc = "loop"
    /\ u_k < Len(itemsToUpdate)
    /\ LET item == itemsToUpdate[u_k + 1]
           d == FirstMatch(item)
       IN \E threw \in BOOLEAN :
            IF threw
            THEN /\ failedUpdates' = Append(failedUpdates, [item |-> item, error |-> "error.message"])
                 /\ failureCount' = failureCount + 1
                 /\ u_log' = Append(u_log, [item |-> item, doc |-> 0, before |-> Undefined,
                                            outcome |-> "error"])
                 /\ UNCHANGED <<store, successCount>>
            ELSE IF d = 0
            THEN /\ failedUpdates' = Append(failedUpdates,
                        [item |-> item,
                         error |-> "No matching document found or no modification needed."])
                 /\ failureCount' = failureCount + 1
                 /\ u_log' = Append(u_log, [item |-> item, doc |-> 0, before |-> Undefined,
                                            outcome |-> "nomatch"])
                 /\ UNCHANGED <<store, successCount>>
            ELSE IF store[d].ship_to = item.suggested_ship_to
            THEN /\ u_log' = Append(u_log, [item |-> item, doc |-> d,
                                            before |-> store[d].ship_to, outcome |-> "noop"])
                 /\ UNCHANGED <<store, successCount, failureCount, failedUpdates>>
            ELSE /\ store' = [store EXCEPT ![d].ship_to = item.suggested_ship_to]
                 /\ successCount' = successCount + 1
                 /\ u_log' = Append(u_log, [item |-> item, doc |-> d,
                                            before |-> store[d].ship_to, outcome |-> "applied"])
                 /\ UNCHANGED <<failureCount, failedUpdates>>
    /\ u_k' = u_k + 1
    /\ u_pc' = AfterItem(u_k', u_log'[Len(u_log')].outcome)
    /\ UNCHANGED <<u_plan, mode, u_ext>>
    /\ UNCHANGED notUpdateVars

\* another client of the collection changes one field of one document while the
\* updater is between two writes (or before its first)
ExternalModify ==
    /\ u_pc = "loop"
    /\ u_ext < MaxExternalMods
    /\ \E d \in 1..Len(store) :
         \/ \E st \in ShipTos \ {store[d].ship_to} :
               store' = [store EXCEPT ![d].ship_to = st]
         \/ \E status \in Statuses \ {store[d].status} :
               store' = [store EXCEPT ![d].status = status]
         \/ \E ex \in ExceptionSets \ {store[d].exception_types} :
               store' = [store EXCEPT ![d].exception_types = ex]
    /\ u_ext' = u_ext + 1
    /\ UNCHANGED <<u_pc, u_plan, mode, u_k, successCount, failureCount, failedUpdates, u_log>>
    /\ UNCHANGED notUpdateVars

\* client.db(databaseName) or db.collection(...) throws before the loop: the
\* outer catch counts every item of updatePlan as failed and names none
UpdateSetupThrows ==
    /\ u_pc = "loop"
    /\ u_k = 0
    /\ failureCount' = failureCount + (Len(u_plan) - (successCount + failureCount))
    /\ u_pc' = "done"
    /\ UNCHANGED <<store, u_plan, mode, u_k, successCount, failedUpdates, u_log, u_ext>>
    /\ UNCHANGED notUpdateVars

NextUpdate == UpdateItem \/ ExternalModify \/ UpdateSetupThrows

InitSpecUpdate == InitUpdate /\ IdleGemma /\ IdlePlan /\ IdleParse /\ IdleAnalyze /\ IdleExtract /\ IdleCycle /\ IdleScript /\ IdleRerun

SpecUpdate == InitSpecUpdate /\ [][NextUpdate]_vars

\* the documents an item identifies
TargetsOf(item) ==
    {d \in 1..Len(store) :
        store[d].group_id = item.group_id /\ store[d].inv_num = item.inv_num}

\* C1: whatever the state of the collection when an item's conditional write
\* runs, the write changes the ship_to of a document only if that ship_to was
\* missing, empty or null, or equal to the item's current_ship_to.
C1_GuardedWriteNeverClobbers ==
    \A i \in 1..Len(u_log) :
        u_log[i].outcome = "applied" =>
            \/ u_log[i].before \in {Undefined, "", Null}
            \/ u_log[i].before = u_log[i].item.current_ship_to

\* another client set the ship_to of the target to a new address; the write for
\* it ran, matched nothing, and the address is still there
C1_Witness ==
    /\ u_ext > 0
    /\ \E i \in 1..Len(u_log) :
         /\ u_log[i].outcome = "nomatch"
         /\ \E d \in TargetsOf(u_log[i].item) :
              /\ store[d].ship_to = "C"
              /\ store[d].status = "DISPUTED"
              /\ "PO_NOT_FOUND" \in store[d].exception_types
    /\ \E i \in 1..Len(u_log) : u_log[i].outcome = "applied"

\* the item the loop of executeDatabaseUpdates takes up next
NextItem == itemsToUpdate[u_k + 1]

\* no document of the collection satisfies the filter built for the item
NothingMatches(item) ==
    \A d \in 1..Len(store) :
        ~(/\ store[d].group_id = item.group_id
          /\ store[d].inv_num = item.inv_num
          /\ "PO_NOT_FOUND" \in store[d].exception_types
          /\ store[d].status = "DISPUTED"
          /\ \/ store[d].ship_to \in {Undefined, "", Null}
             \/ store[d].ship_to = item.current_ship_to)

\* the step in which updateOne for the next item returns with matchedCount 0
NoMatchStep ==
    /\ u_pc = "loop" /\ u_k' = u_k + 1
    /\ NothingMatches(NextItem)
    /\ u_log'[Len(u_log')].outcome # "error"

\* C11: when the conditional write of a plan item matches 0 documents, the item
\* is added to failedUpdates with the reason "No matching document found or no
\* modification needed.", failureCount grows by exactly one, nothing is
\* written, and the loop goes on to the next item if there is one.
C11_NoMatchIsRecordedAndRunContinues ==
    [][NoMatchStep =>
         /\ failureCount' = failureCount + 1
         /\ successCount' = successCount
         /\ failedUpdates' = Append(failedUpdates,
                [item |-> NextItem,
                 error |-> "No matching document found or no modification needed."])
         /\ store' = store
         /\ u_pc' = IF u_k + 1 < (IF mode = "first" THEN 1 ELSE Len(u_plan))
                    THEN "loop" ELSE "done"]_vars

\* a write matched nothing and the write of the next item was then attempted
C11_Witness ==
    /\ Len(u_log) = 2
    /\ u_log[1].outcome = "nomatch"
    /\ failureCount >= 1
    /\ Len(failedUpdates) >= 1 /\ failedUpdates[1].item = u_log[1].item

\* how many entries of the log have one of the outcomes
CountOutcomes(outcomes) == Cardinality({k \in 1..Len(u_log) : u_log[k].outcome \in outcomes})

\* C12: if a write throws while item k is processed, no item after k is
\* attempted in that run.
C12_WriteErrorAbortsRemainingItems ==
    \A k \in 1..Len(u_log) : u_log[k].outcome = "error" => Len(u_log) = k

\* C12 (as the code has it): a write that throws while item k is processed is
\* caught for that item alone: the item is added to failedUpdates with the
\* error's message and counted as one failure, every item after k is still
\* attempted, and the statistics returned count the outcomes of all items.
C12_WriteErrorIsIsolated ==
    \A k \in 1..Len(u_log) :
        u_log[k].outcome = "error" =>
            /\ \E f \in 1..Len(failedUpdates) :
                  failedUpdates[f] = [item |-> u_log[k].item, error |-> "error.message"]
            /\ failureCount = CountOutcomes({"error", "nomatch"})
            /\ Len(failedUpdates) = failureCount
            /\ successCount = CountOutcomes({"applied"})
            /\ u_pc = "done" => Len(u_log) = (IF mode = "first" THEN 1 ELSE Len(u_plan))
            /\ u_pc = "loop" => Len(u_log) < (IF mode = "first" THEN 1 ELSE Len(u_plan))

\* the write of the first item threw and the second item was written
C12_Witness ==
    /\ u_pc = "done"
    /\ Len(u_log) = 2
    /\ u_log[1].outcome = "error"
    /\ u_log[2].outcome = "applied"
    /\ successCount = 1 /\ failureCount = 1

\* the step in which updateOne for the next item returns (it did not throw)
\* having modified document d
WriteStepModifies(d) ==
    /\ u_pc = "loop" /\ u_k' = u_k + 1
    /\ store'[d] # store[d]

\* C22: every document modified by executeDatabaseUpdates has, at the moment
\* of the write, the group_id and inv_num of the plan item, an exception of
\* type PO_NOT_FOUND and status DISPUTED; the write changes its ship_to and
\* nothing else, and a document whose status is no longer DISPUTED or that no
\* longer has a PO_NOT_FOUND exception is left as it is.
C22_WriteOnlyToDisputedPoNotFound ==
    [][\A d \in 1..Len(store) :
         WriteStepModifies(d) =>
            /\ store[d].group_id = NextItem.group_id
            /\ store[d].inv_num = NextItem.inv_num
            /\ "PO_NOT_FOUND" \in store[d].exception_types
            /\ store[d].status = "DISPUTED"
            /\ store'[d] = [store[d] EXCEPT !.ship_to = NextItem.suggested_ship_to]]_vars

\* another client approved the invoice of an item before its write ran: the
\* write matched nothing although the ship_to is still missing, and the write
\* of another item was applied
C22_Witness ==
    /\ u_ext = 1
    /\ \E i \in 1..Len(u_log) :
         /\ u_log[i].outcome = "nomatch"
         /\ \E d \in TargetsOf(u_log[i].item) :
              /\ store[d].status = "APPROVED"
              /\ store[d].ship_to = Undefined
    /\ \E i \in 1..Len(u_log) : u_log[i].outcome = "applied"

\* the run ended in the outer catch before the loop issued any write
SetupThrew == u_pc = "done" /\ u_log = <<>> /\ Len(u_plan) > 0

\* the documents the updater itself modified
ModifiedByUpdater == {u_log[k].doc : k \in {j \in 1..Len(u_log) : u_log[j].outcome = "applied"}}

\* the writes issued so far are those of the first items of the plan, in plan order
WritesFollowPlan ==
    /\ Len(u_log) = u_k
    /\ \A k \in 1..Len(u_log) : u_log[k].item = u_plan[k]

\* C23 as stated: in mode 'first' at most one write is issued, for the first
\* item, and every document targeted by another plan item stays unmodified;
\* in mode 'all' a finished run issued exactly one write per plan item, in
\* plan order.
C23_ModeSelectsWrites ==
    /\ WritesFollowPlan
    /\ mode = "first" =>
          /\ Len(u_log) <= 1
          /\ \A j \in 2..Len(u_plan) : TargetsOf(u_plan[j]) \cap ModifiedByUpdater = {}
    /\ (mode = "all" /\ u_pc = "done") => Len(u_log) = Len(u_plan)

\* C23 amended: in mode 'first' at most one write is issued, for the first
\* item, and every document that the first item does not target stays
\* unmodified; in mode 'all' a finished run issued exactly one write per plan
\* item, in plan order, unless obtaining the collection failed before the
\* loop, in which case no write was issued in either mode.
C23_ModeSelectsWritesUnlessSetupFails ==
    /\ WritesFollowPlan
    /\ mode = "first" =>
          /\ Len(u_log) <= 1
          /\ ModifiedByUpdater \subseteq TargetsOf(u_plan[1])
          /\ (u_pc = "done" /\ ~SetupThrew) => Len(u_log) = 1
    /\ (mode = "all" /\ u_pc = "done" /\ ~SetupThrew) => Len(u_log) = Len(u_plan)
    /\ SetupThrew => ModifiedByUpdater = {}

\* a finished run in mode 'first' over a plan of two items for two documents:
\* the first item was applied and the document of the second was not written
C23_Witness ==
    /\ u_pc = "done"
    /\ mode = "first"
    /\ Len(u_plan) = 2
    /\ u_plan[2].inv_num # u_plan[1].inv_num
    /\ Len(u_log) = 1 /\ u_log[1].outcome = "applied"
    /\ \A d \in TargetsOf(u_plan[2]) : store[d].ship_to = Undefined

\* updates_attempted as runDbUpdateScript reports it
UpdatesAttempted == successCount + failureCount

\* C27: in every run successCount + failureCount equals the number of plan
\* items for which a write was attempted and never exceeds the number of
\* items the mode selects, and failureCount equals the length of
\* failedUpdates, also when a write is a no-op and when the run is cut short.
C27_CountsMatchAttemptedWrites ==
    /\ UpdatesAttempted = Len(u_log)
    /\ UpdatesAttempted <= Len(itemsToUpdate)
    /\ failureCount = Len(failedUpdates)

(***************************************************************************)
(* The response parser of analyzeInvoicesWithGemma.                        *)
(* A string is a sequence of tokens:                                       *)
(*   "w"  a word of free text        " "  white space                      *)
(*   "M"  the literal SUGGESTED_FIX_DATA:                                  *)
(*   "{" "}"  braces                                                       *)
(*   "p"  the text "ship_to": "12 Oak St", "confidence": 95                *)
(*   "7"  a number literal                                                 *)
(***************************************************************************)
MaxResponseLen == 5

fixDataMarker == "M"
ResponseTokens == {"w", " ", fixDataMarker, "{", "}", "p", "7"}

\* String.prototype.indexOf, 1-based, 0 for -1
IndexOf(str, tok) ==
    LET hits == {k \in 1..Len(str) : str[k] = tok}
    IN IF hits = {} THEN 0 ELSE CHOOSE k \in hits : \A h \in hits : k <= h

\* String.prototype.lastIndexOf, 1-based, 0 for -1
LastIndexOf(str, tok) ==
    LET hits == {k \in 1..Len(str) : str[k] = tok}
    IN IF hits = {} THEN 0 ELSE CHOOSE k \in hits : \A h \in hits : k >= h

\* String.prototype.trim
Trim(str) ==
    LET solid == {k \in 1..Len(str) : str[k] # " "}
    IN IF solid = {} THEN <<>>
       ELSE SubSeq(str, CHOOSE k \in solid : \A h \in solid : k <= h,
                        CHOOSE k \in solid : \A h \in solid : k >= h)

\* the tokens JSON.parse reads, white space between them dropped
JsonTokens(str) == SelectSeq(str, LAMBDA tok : tok # " ")

\* whether JSON.parse accepts the text: a number, or an object with no member
\* or with the members of "p"
JsonValid(str) ==
    JsonTokens(str) \in {<<"7">>, <<"{", "}">>, <<"{", "p", "}">>}

\* what JSON.parse returns for a text it accepts
JsonParse(str) ==
    CASE JsonTokens(str) = <<"7">> -> JsNumber(7)
      [] JsonTokens(str) = <<"{", "}">> ->
            [t |-> "object", ship_to |-> Undefined, confidence |-> JsUndefined]
      [] OTHER ->
            [t |-> "object", ship_to |-> "12 Oak St", confidence |-> JsNumber(95)]

\* gemmaResponse.substring(markerIndex + fixDataMarker.length).trim()
potentialJsonString(resp, markerIndex) == Trim(SubSeq(resp, markerIndex + 1, Len(resp)))

\* whether first '{' and last '}' delimit a payload
BracesFound(str) ==
    /\ IndexOf(str, "{") # 0
    /\ LastIndexOf(str, "}") # 0
    /\ LastIndexOf(str, "}") > IndexOf(str, "{")

\* let jsonStringToParse = potentialJsonString, narrowed to first '{' .. last '}'
jsonStringToParse(str) ==
    IF BracesFound(str) THEN SubSeq(str, IndexOf(str, "{"), LastIndexOf(str, "}")) ELSE str

\* if (jsonStringToParse) { try { suggestedFix = JSON.parse(...) } catch (e) { warn } }
ParsedFix(str) ==
    IF str # <<>> /\ JsonValid(str) THEN JsonParse(str) ELSE JsNull

Diagnosis_Untrimmed(resp, markerIndex) == resp

\* analysisReason = gemmaResponse.substring(0, markerIndex).trim()
Diagnosis(resp, markerIndex) == Trim(SubSeq(resp, 1, markerIndex - 1))

\* lines 614-639: analysisReason and suggestedFix for a response
ParseResponse(resp) ==
    LET markerIndex == IndexOf(resp, fixDataMarker)
    IN IF markerIndex # 0
       THEN [reason_from_gemma |-> Diagnosis(resp, markerIndex),
             suggested_fix_data |->
                 ParsedFix(jsonStringToParse(potentialJsonString(resp, markerIndex)))]
       ELSE [reason_from_gemma |-> resp, suggested_fix_data |-> JsNull]

InitParse ==
    /\ r_pc = "received"
    /\ gemmaResponse \in SeqsUpTo(ResponseTokens, MaxResponseLen)
    /\ r_stored = [reason_from_gemma |-> <<>>, suggested_fix_data |-> JsNull]

ParseAndStore ==
    /\ r_pc = "received"
    /\ r_stored' = ParseResponse(gemmaResponse)
    /\ r_pc' = "stored"
    /\ UNCHANGED gemmaResponse
    /\ UNCHANGED notParseVars

NextParse == ParseAndStore

InitSpecParse == InitParse /\ IdleGemma /\ IdlePlan /\ IdleUpdate /\ IdleAnalyze /\ IdleExtract /\ IdleCycle /\ IdleScript /\ IdleRerun

SpecParse == InitSpecParse /\ [][NextParse]_vars

\* the text after the first marker, and the brace-delimited payload in it
AfterMarker == SubSeq(gemmaResponse, IndexOf(gemmaResponse, fixDataMarker) + 1, Len(gemmaResponse))
BeforeMarker == SubSeq(gemmaResponse, 1, IndexOf(gemmaResponse, fixDataMarker) - 1)
HasValidBracePayload ==
    /\ BracesFound(AfterMarker)
    /\ JsonValid(SubSeq(AfterMarker, IndexOf(AfterMarker, "{"), LastIndexOf(AfterMarker, "}")))

\* C4: for a response that contains the marker, the stored diagnosis is the
\* trimmed text before the first marker, and the stored correction is non-null
\* if and only if the text after the marker contains a brace-delimited payload
\* (first '{' to last '}') that parses as valid structured data.
C4_DiagnosisAndCorrectionIff ==
    (r_pc = "stored" /\ IndexOf(gemmaResponse, fixDataMarker) # 0) =>
        /\ r_stored.reason_from_gemma = Trim(BeforeMarker)
        /\ (r_stored.suggested_fix_data # JsNull) = HasValidBracePayload

(***************************************************************************)
(* extractTextFromPdf                                                      *)
(* The tools it drives (file access, pdfinfo, pdftoppm, Tesseract) are the *)
(* environment: env says how each behaves in one call.                     *)
(***************************************************************************)
MAX_PAGES_FOR_ANALYSIS == 3

JsText(tokens) == [t |-> "string", tokens |-> tokens]

tooLargePrefix == "PDF_TOO_LARGE:"

\* str.startsWith("PDF_TOO_LARGE:")
StartsWithTooLarge(tokens) == Len(tokens) > 0 /\ tokens[1] = tooLargePrefix

\* `PDF_TOO_LARGE: Document '...' has N pages (max 3 allowed). Skipping OCR.`
warningMessage == <<tooLargePrefix, "w">>

\* texts Tesseract may recognise on page 1: nothing, ordinary text, and a page
\* whose own text begins with PDF_TOO_LARGE:
OcrTexts == {<<>>, <<"w">>, <<tooLargePrefix, "w">>}

ExtractEnvs ==
    [access : {"ok", "throws"}, pdfinfo : {"pages", "noPages", "throws"},
     convert : {"ok", "noPng", "throws"}, ocr : {"ok", "throws"}, text : OcrTexts,
     writeFile : {"ok", "throws"}, mkdtemp : {"ok", "throws"},
     unlinkPdf : {"ok", "throws"}, unlinkImage : {"ok", "throws"}, rmDir : {"ok", "throws"}]

ExceedsCap_Loose(pageCount) == pageCount > MAX_PAGES_FOR_ANALYSIS + 1

\* if (pageCount > MAX_PAGES_FOR_ANALYSIS)
ExceedsCap(pageCount) == pageCount > MAX_PAGES_FOR_ANALYSIS

\* where the try block is left: the step that threw, or the return statement
\* reached ("sentinel": line 366, "text": line 397)
ExitPoint(input, pages, env) ==
    IF input = "buffer" /\ env.writeFile = "throws" THEN "writeFile"
    ELSE IF env.access = "throws" THEN "access"
    ELSE IF env.pdfinfo = "throws" THEN "pdfinfo"
    ELSE IF env.pdfinfo = "pages" /\ ExceedsCap(pages) THEN "sentinel"
    ELSE IF env.mkdtemp = "throws" THEN "mkdtemp"
    ELSE IF env.convert = "throws" THEN "convert"
    ELSE IF env.convert = "noPng" THEN "noPng"
    ELSE IF env.ocr = "throws" THEN "ocr"
    ELSE "text"

\* the artifacts on disk when the try block is left: the temporary copy of a
\* Buffer input, the pdftoppm output directory, the page image in it
Acquired(input, exit) ==
    (IF input = "buffer" /\ exit # "writeFile" THEN {"tempPdf"} ELSE {})
    \cup (IF exit \in {"convert", "noPng", "ocr", "text"} THEN {"tempDir"} ELSE {})
    \cup (IF exit \in {"ocr", "text"} THEN {"image"} ELSE {})

FinallyRuns_NotOnReturn(exit) == exit \notin {"text", "sentinel"}

\* the finally block runs on every way out of the try block
FinallyRuns(exit) == TRUE

\* the artifacts the finally block removed: each removal is tried on its own,
\* and rm -r of the directory takes the image with it
Released(acquired, exit, env) ==
    IF FinallyRuns(exit)
    THEN {a \in acquired :
            \/ a = "tempPdf" /\ env.unlinkPdf = "ok"
            \/ a = "image" /\ (env.unlinkImage = "ok" \/ env.rmDir = "ok")
            \/ a = "tempDir" /\ env.rmDir = "ok"}
    ELSE {}

\* the value returned, and which tools were run
ExtractOutcome(text, ranPdfinfo, ranConvert, ranOcr) ==
    [text |-> text, ranPdfinfo |-> ranPdfinfo, ranConvert |-> ranConvert, ranOcr |-> ranOcr]

\* one call: the outcome with the exit point and the artifacts acquired and left
ExtractCall(input, pages, env) ==
    LET exit == ExitPoint(input, pages, env)
        acquired == Acquired(input, exit)
        out == CASE exit \in {"writeFile", "access"} -> ExtractOutcome(JsNull, FALSE, FALSE, FALSE)
                 [] exit \in {"pdfinfo", "mkdtemp"} -> ExtractOutcome(JsNull, TRUE, FALSE, FALSE)
                 [] exit = "sentinel" -> ExtractOutcome(JsText(warningMessage), TRUE, FALSE, FALSE)
                 [] exit \in {"convert", "noPng"} -> ExtractOutcome(JsNull, TRUE, TRUE, FALSE)
                 [] exit = "ocr" -> ExtractOutcome(JsNull, TRUE, TRUE, TRUE)
                 [] OTHER -> ExtractOutcome(JsText(env.text), TRUE, TRUE, TRUE)
    IN [out |-> out, exit |-> exit, acquired |-> acquired,
        left |-> acquired \ Released(acquired, exit, env)]

\* the call analyzeInvoicesWithGemma makes: the input is a path
extractTextFromPdf(pages, env) == ExtractCall("path", pages, env).out

\* page counts of the PDFs handed to one call
PageCounts == {1, MAX_PAGES_FOR_ANALYSIS, MAX_PAGES_FOR_ANALYSIS + 1}

InitExtract ==
    /\ x_pc = "called"
    /\ x_call \in [input : {"path", "buffer"}, pages : PageCounts, env : ExtractEnvs]
    /\ x_ret = <<>>

ExtractReturns ==
    /\ x_pc = "called"
    /\ x_ret' = ExtractCall(x_call.input, x_call.pages, x_call.env)
    /\ x_pc' = "returned"
    /\ UNCHANGED x_call
    /\ UNCHANGED notExtractVars

NextExtract == ExtractReturns

InitSpecExtract ==
    InitExtract /\ IdleGemma /\ IdlePlan /\ IdleUpdate /\ IdleParse /\ IdleAnalyze /\ IdleCycle /\ IdleScript /\ IdleRerun

SpecExtract == InitSpecExtract /\ [][NextExtract]_vars

\* C17: on every exit path of extractTextFromPdf every artifact the call
\* acquired has been released when the call returns.
C17_EveryArtifactReleased ==
    x_pc = "returned" => x_ret.left = {}

\* the removals of the finally block that threw
FailedRemovals ==
    (IF x_call.env.unlinkPdf = "throws" THEN {"tempPdf"} ELSE {})
    \cup (IF x_call.env.rmDir = "throws" THEN {"tempDir"} ELSE {})
    \cup (IF x_call.env.rmDir = "throws" /\ x_call.env.unlinkImage = "throws"
          THEN {"image"} ELSE {})

\* C17 (as the code has it): on every exit path the removal of every artifact
\* the call acquired is attempted before the call returns; an artifact is left
\* behind only when its own removal threw (which is caught and logged), so with
\* no failing removal nothing is left on any exit path. A path input acquires
\* no temporary copy, and the sentinel is returned before any directory or
\* image exists.
C17_ArtifactsReleasedUnlessRemovalFails ==
    x_pc = "returned" =>
        /\ x_ret.left = x_ret.acquired \cap FailedRemovals
        /\ FailedRemovals = {} => x_ret.left = {}
        /\ x_call.input = "path" => "tempPdf" \notin x_ret.acquired
        /\ x_ret.exit = "sentinel" => x_ret.acquired \subseteq {"tempPdf"}
        /\ x_ret.exit \in {"sentinel", "text"} <=> x_ret.out.text # JsNull

\* recognition threw with a temporary copy, the directory and the image on disk,
\* and all three were removed
C17_Witness ==
    /\ x_pc = "returned"
    /\ x_ret.exit = "ocr"
    /\ x_ret.acquired = {"tempPdf", "tempDir", "image"}
    /\ x_ret.left = {}

(***************************************************************************)
(* constructGemmaPrompt                                                    *)
(***************************************************************************)
\* the keys of GEMMA_PROMPT_TEMPLATES
TemplateTypes ==
    {"PENDING_CONFIRMATION", "INV_AMOUNT_VARIANCE", "PO_NOT_FOUND",
     "ITEM_UNMATCHED", "UNASSIGNED", "SHIPTOISSUE"}

\* the {name} slots written in the base_prompt of a template
BasePlaceholders(reportType) ==
    {"file_name", "json_data", "pdf_content_section", "criteria_list"}
    \cup (CASE reportType = "INV_AMOUNT_VARIANCE" -> {"exception_diff"}
            [] reportType = "PO_NOT_FOUND" -> {"po_num_value"}
            [] reportType = "SHIPTOISSUE" -> {"ship_to", "ship_to_value"}
            [] OTHER -> {})

\* the {name} slots written in the criteria of a template
CriteriaPlaceholders(reportType) ==
    IF reportType = "PENDING_CONFIRMATION" THEN {"current_date"} ELSE {}

\* the slots left in promptText after the replace calls of lines 437-466, each
\* slot standing once in its template
UnresolvedPlaceholders(reportType) ==
    LET afterData == BasePlaceholders(reportType) \ {"file_name", "json_data"}
        afterCriteria == (afterData \ {"criteria_list"}) \cup CriteriaPlaceholders(reportType)
    IN afterCriteria \ {"current_date", "exception_diff", "po_num_value", "ship_to_value",
                        "pdf_content_section"}

\* invoiceData.exceptions?.header?.find(...) throws when header is there and is
\* not an array
ExceptionDiffThrows(doc) == doc.exceptions_header = "object"

constructGemmaPrompt_NoFallback(doc, pdfText, reportType, includePdf) ==
    [threw |-> \/ reportType \notin TemplateTypes
               \/ (reportType = "INV_AMOUNT_VARIANCE" /\ ExceptionDiffThrows(doc)),
     template |-> reportType, unresolved |-> {}, evidence |-> "unavailable"]

\* the prompt text by its parts, or threw
constructGemmaPrompt(doc, pdfText, reportType, includePdf) ==
    LET hasText == pdfText # JsNull /\ pdfText.tokens # <<>> /\ includePdf
    IN IF reportType \notin TemplateTypes
       THEN [threw |-> FALSE, template |-> "generic", unresolved |-> {},
             evidence |-> IF hasText THEN "text" ELSE "none"]
       ELSE IF reportType = "INV_AMOUNT_VARIANCE" /\ ExceptionDiffThrows(doc)
       THEN [threw |-> TRUE, template |-> reportType, unresolved |-> {},
             evidence |-> "none"]
       ELSE [threw |-> FALSE, template |-> reportType,
             unresolved |-> UnresolvedPlaceholders(reportType),
             evidence |-> IF hasText
                          THEN IF StartsWithTooLarge(pdfText.tokens) THEN "note" ELSE "text"
                          ELSE "unavailable"]

(***************************************************************************)
(* analyzeInvoicesWithGemma                                                *)
(***************************************************************************)
MaxCandidates == 2

API_CALL_DELAY_MS == 5000

NotPerformedMsg == <<"Analysis not performed.">>
ExtractionFailedMsg == <<"PDF text extraction failed.">>
SkippedMsg == <<"Skipped: Missing document data or file_name.">>

\* documents as fetched from the store; present = FALSE is a candidate with no doc
\* (a document fetched for SHIPTOISSUE has ship_to missing, "" or null: see the
\* query of buildMongoQueries)
Doc(fileName, invNum, groupId, shipTo, pages, header) ==
    [present |-> TRUE, file_name |-> fileName, inv_num |-> invNum, group_id |-> groupId,
     ship_to |-> shipTo, pages |-> pages, exceptions_header |-> header]

DocOk3 == Doc("a.pdf", "I1", "G1", "", 3, "array")
DocBig == Doc("b.pdf", "I2", "G1", Undefined, 4, "array")
DocNoFile == Doc(Undefined, "I3", "G1", Null, 1, "array")
DocAbsent ==
    [Doc(Undefined, Undefined, Undefined, Undefined, 1, Undefined) EXCEPT !.present = FALSE]
DocNoGroup == Doc("c.pdf", "I4", Undefined, Undefined, 1, "array")
DocHeaderObject == Doc("d.pdf", "I5", "G1", "A", 1, "object")

Candidates ==
    {[doc |-> DocOk3, reportType |-> "SHIPTOISSUE"],
     [doc |-> DocBig, reportType |-> "SHIPTOISSUE"],
     [doc |-> DocNoFile, reportType |-> "SHIPTOISSUE"],
     [doc |-> DocAbsent, reportType |-> "PO_NOT_FOUND"],
     [doc |-> DocNoGroup, reportType |-> "SHIPTOISSUE"],
     [doc |-> DocHeaderObject, reportType |-> "INV_AMOUNT_VARIANCE"],
     [doc |-> DocHeaderObject, reportType |-> "VENDOR_MISMATCH"],
     [doc |-> DocOk3, reportType |-> "PO_NOT_FOUND"]}

\* how the tools behave during one extraction of the run
EnvOk(text) ==
    [access |-> "ok", pdfinfo |-> "pages", convert |-> "ok", ocr |-> "ok", text |-> text,
     writeFile |-> "ok", mkdtemp |-> "ok", unlinkPdf |-> "ok", unlinkImage |-> "ok",
     rmDir |-> "ok"]

AnalyzeEnvs ==
    {EnvOk(<<"w">>), EnvOk(<<tooLargePrefix, "w">>),
     [EnvOk(<<"w">>) EXCEPT !.pdfinfo = "noPages"],
     [EnvOk(<<"w">>) EXCEPT !.pdfinfo = "throws"],
     [EnvOk(<<"w">>) EXCEPT !.access = "throws"]}

\* strings callGemmaApi returns: a diagnosis alone, a diagnosis with a payload
\* that parses, one with a payload that does not, and a failure message
gemmaFailedMsg == <<"Gemma SDK call failed">>

GemmaReturns ==
    {<<"w">>, <<"w", " ", fixDataMarker, " ", "{", "p", "}">>,
     <<"w", " ", fixDataMarker, " ", "{", "w", "}">>, gemmaFailedMsg}

MissingDocument_OnlyAbsent(doc) == ~doc.present

\* if (!docToAnalyze || !docToAnalyze.file_name)
MissingDocument(doc) == ~doc.present \/ ~Truthy(doc.file_name)

\* docToAnalyze?.file_name || `unknown_file_at_index_${i}`
SkipKey(doc, i) ==
    IF doc.present /\ Truthy(doc.file_name) THEN doc.file_name
    ELSE <<"unknown_file_at_index_0", "unknown_file_at_index_1",
           "unknown_file_at_index_2", "unknown_file_at_index_3">>[i + 1]

\* the entry stored for a skipped record: the snippet has inv_num and total only
SkippedResult(doc, reportType) ==
    [report_type |-> reportType, reason_from_gemma |-> SkippedMsg,
     suggested_fix_data |-> JsNull,
     original_data_snippet |->
        [t |-> "object", inv_num |-> IF doc.present THEN doc.inv_num ELSE Undefined,
         group_id |-> Undefined, ship_to |-> Undefined]]

\* the entry stored for an analysed record: the snippet carries no ship_to
AnalysisResult(doc, reportType, analysisReason, suggestedFix) ==
    [report_type |-> reportType, reason_from_gemma |-> analysisReason,
     suggested_fix_data |-> suggestedFix,
     original_data_snippet |->
        [t |-> "object", inv_num |-> doc.inv_num, group_id |-> doc.group_id,
         ship_to |-> Undefined]]

\* analysisResults[key] = result
PutResult(results, key, result) ==
    IF \E k \in 1..Len(results) : results[k].file_name = key
    THEN [k \in 1..Len(results) |->
            IF results[k].file_name = key THEN [results[k] EXCEPT !.result = result]
            ELSE results[k]]
    ELSE Append(results, [file_name |-> key, result |-> result])

Event(ev, i, d) == [ev |-> ev, i |-> i, d |-> d]

StoreEvent(i, key, result, via, response) ==
    Event("store", i, [key |-> key, result |-> result, via |-> via, response |-> response])

\* analysisReason after the extraction (lines 599-607)
ReasonAfterExtraction_NullUnnoticed(pdfTextContent) ==
    IF pdfTextContent # JsNull /\ StartsWithTooLarge(pdfTextContent.tokens)
    THEN pdfTextContent.tokens
    ELSE NotPerformedMsg

ReasonAfterExtraction(pdfTextContent) ==
    IF pdfTextContent # JsNull /\ StartsWithTooLarge(pdfTextContent.tokens)
    THEN pdfTextContent.tokens
    ELSE IF pdfTextContent = JsNull THEN ExtractionFailedMsg
    ELSE NotPerformedMsg

\* the condition of line 610
PassesGate(analysisReason) ==
    ~(StartsWithTooLarge(analysisReason) \/ analysisReason = ExtractionFailedMsg)

\* after a record is stored: the next iteration begins with the delay, or the
\* loop ends
AfterRecord_SameRecordAgain(i) == "record"

AfterRecord(i) == IF i + 1 < Len(invoicesToAnalyze) THEN "delaying" ELSE "persist"

\* lines 611-612: the prompt is built, which may throw out of the function,
\* and callGemmaApi is called
PromptAndCall(cand, i, pdfTextContent, log) ==
    LET prompt == constructGemmaPrompt(cand.doc, pdfTextContent, cand.reportType,
                                       include_pdf_content)
    IN IF prompt.threw
       THEN [pc |-> "aborted", log |-> Append(log, Event("prompt_threw", i, prompt))]
       ELSE [pc |-> "inferring", log |-> Append(log, Event("infer", i, prompt))]

InitAnalyze ==
    /\ a_pc = "record"
    /\ invoicesToAnalyze \in SeqsUpTo(Candidates, MaxCandidates) \ {<<>>}
    /\ include_pdf_content \in BOOLEAN
    /\ a_i = 0 /\ a_results = <<>> /\ a_file = <<>> /\ a_log = <<>>

\* await delay(API_CALL_DELAY_MS) at the top of every iteration but the first
AnalyzeDelay ==
    /\ a_pc = "delaying"
    /\ a_i' = a_i + 1
    /\ a_log' = Append(a_log, Event("delay", a_i + 1, API_CALL_DELAY_MS))
    /\ a_pc' = "record"
    /\ UNCHANGED <<invoicesToAnalyze, include_pdf_content, a_results, a_file>>
    /\ UNCHANGED notAnalyzeVars

\* lines 571-597, and 610-612 when the PDF content is not included
AnalyzeRecord ==
    /\ a_pc = "record"
    /\ LET cand == invoicesToAnalyze[a_i + 1]
       IN IF MissingDocument(cand.doc)
          THEN LET key == SkipKey(cand.doc, a_i)
                   result == SkippedResult(cand.doc, cand.reportType)
               IN /\ a_results' = PutResult(a_results, key, result)
                  /\ a_log' = Append(a_log, StoreEvent(a_i, key, result, "skip", <<>>))
                  /\ a_pc' = AfterRecord(a_i)
          ELSE IF include_pdf_content
          THEN /\ a_pc' = "extracting"
               /\ UNCHANGED <<a_results, a_log>>
          ELSE LET step == PromptAndCall(cand, a_i, JsNull, a_log)
               IN /\ a_pc' = step.pc
                  /\ a_log' = step.log
                  /\ UNCHANGED a_results
    /\ UNCHANGED <<invoicesToAnalyze, include_pdf_content, a_i, a_file>>
    /\ UNCHANGED notAnalyzeVars

\* extractTextFromPdf returns: lines 597-612
AnalyzeExtracted ==
    /\ a_pc = "extracting"
    /\ \E env \in AnalyzeEnvs :
        LET cand == invoicesToAnalyze[a_i + 1]
            out == extractTextFromPdf(cand.doc.pages, env)
            analysisReason == ReasonAfterExtraction(out.text)
            log == Append(a_log, Event("extract", a_i, [env |-> env, out |-> out]))
        IN IF PassesGate(analysisReason)
           THEN LET step == PromptAndCall(cand, a_i, out.text, log)
                IN /\ a_pc' = step.pc
                   /\ a_log' = step.log
                   /\ UNCHANGED a_results
           ELSE LET result == AnalysisResult(cand.doc, cand.reportType, analysisReason, JsNull)
                IN /\ a_results' = PutResult(a_results, cand.doc.file_name, result)
                   /\ a_log' = Append(log, StoreEvent(a_i, cand.doc.file_name, result,
                                                      "gate", analysisReason))
                   /\ a_pc' = AfterRecord(a_i)
    /\ UNCHANGED <<invoicesToAnalyze, include_pdf_content, a_i, a_file>>
    /\ UNCHANGED notAnalyzeVars

\* callGemmaApi returns: lines 612-653
AnalyzeInferred ==
    /\ a_pc = "inferring"
    /\ \E response \in GemmaReturns :
        LET cand == invoicesToAnalyze[a_i + 1]
            parsed == ParseResponse(response)
            result == AnalysisResult(cand.doc, cand.reportType, parsed.reason_from_gemma,
                                     parsed.suggested_fix_data)
        IN /\ a_results' = PutResult(a_results, cand.doc.file_name, result)
           /\ a_log' = Append(a_log, StoreEvent(a_i, cand.doc.file_name, result,
                                                "gemma", response))
           /\ a_pc' = AfterRecord(a_i)
    /\ UNCHANGED <<invoicesToAnalyze, include_pdf_content, a_i, a_file>>
    /\ UNCHANGED notAnalyzeVars

\* lines 662-667
AnalyzePersist ==
    /\ a_pc = "persist"
    /\ a_file' = IF Len(a_results) > 0 THEN a_results ELSE a_file
    /\ a_pc' = "done"
    /\ UNCHANGED <<invoicesToAnalyze, include_pdf_content, a_i, a_results, a_log>>
    /\ UNCHANGED notAnalyzeVars

NextAnalyze ==
    \/ AnalyzeDelay
    \/ AnalyzeRecord
    \/ AnalyzeExtracted
    \/ AnalyzeInferred
    \/ AnalyzePersist

InitSpecAnalyze == InitAnalyze /\ IdleGemma /\ IdlePlan /\ IdleUpdate /\ IdleParse /\ IdleExtract /\ IdleCycle /\ IdleScript /\ IdleRerun

SpecAnalyze == InitSpecAnalyze /\ [][NextAnalyze]_vars /\ WF_vars(NextAnalyze)

\* positions of the log, and what the run did with record i
LogPositions == 1..Len(a_log)
EventsOf(ev) == {p \in LogPositions : a_log[p].ev = ev}
EventsFor(ev, i) == {p \in EventsOf(ev) : a_log[p].i = i}
CandidateIndices == 0..(Len(invoicesToAnalyze) - 1)
DocAt(i) == invoicesToAnalyze[i + 1].doc
AnalyzeEnded == a_pc \in {"done", "aborted"}

\* C3: for every document whose page count exceeds the cap of 3,
\* extractTextFromPdf returns the too-large sentinel without conversion or
\* recognition and no inference call is made for that record.
C3_OverCapAlwaysSentinelNeverInferred ==
    \A p \in EventsOf("store") :
        (DocAt(a_log[p].i).present /\ DocAt(a_log[p].i).pages > 3) =>
            /\ \E q \in EventsFor("extract", a_log[p].i) :
                /\ q < p
                /\ a_log[q].d.out.text # JsNull
                /\ StartsWithTooLarge(a_log[q].d.out.text.tokens)
                /\ ~a_log[q].d.out.ranConvert /\ ~a_log[q].d.out.ranOcr
            /\ EventsFor("infer", a_log[p].i) = {}

\* C3 (as the code has it): when extractTextFromPdf is run on a document and
\* pdfinfo reports a page count above 3, it returns the too-large sentinel
\* without conversion or recognition and the record is stored with that
\* sentinel as its diagnosis with no prompt built and no inference call; when
\* pdfinfo reports exactly 3 pages the cap does not gate: conversion is run,
\* and ordinary recognised text leads to the prompt and the inference call.
\* Extraction is run only when the PDF content is included; with no Pages line
\* in the pdfinfo output conversion is run whatever the page count; when the
\* file access or pdfinfo fails the result is null and no inference is called.
C3_ReportedOverCapShortCircuits ==
    \A q \in EventsOf("extract") :
        LET i == a_log[q].i
            env == a_log[q].d.env
            out == a_log[q].d.out
            reported == env.access = "ok" /\ env.pdfinfo = "pages"
        IN /\ (reported /\ DocAt(i).pages > 3) =>
                /\ out.text = JsText(warningMessage)
                /\ ~out.ranConvert /\ ~out.ranOcr
                /\ EventsFor("infer", i) = {} /\ EventsFor("prompt_threw", i) = {}
                /\ a_log[q + 1].ev = "store" /\ a_log[q + 1].i = i
                /\ a_log[q + 1].d.result.reason_from_gemma = warningMessage
                /\ a_log[q + 1].d.result.suggested_fix_data = JsNull
           /\ (reported /\ DocAt(i).pages = 3) =>
                /\ out.ranConvert
                /\ (out.text = JsText(<<"w">>)) =>
                      (a_log[q + 1].ev \in {"infer", "prompt_threw"} /\ a_log[q + 1].i = i)
           /\ (env.access = "ok" /\ env.pdfinfo = "noPages") => out.ranConvert
           /\ (env.access = "throws" \/ env.pdfinfo = "throws") =>
                (out.text = JsNull /\ EventsFor("infer", i) = {})
           /\ include_pdf_content

C3_Witness ==
    /\ a_pc = "done"
    /\ \E q \in EventsOf("extract") :
        /\ DocAt(a_log[q].i).pages > 3
        /\ a_log[q].d.env.pdfinfo = "pages"
        /\ a_log[q + 1].ev = "store"
    /\ \E q \in EventsOf("extract") :
        /\ DocAt(a_log[q].i).pages = 3
        /\ a_log[q].d.out.text = JsText(<<"w">>)
        /\ a_log[q + 1].ev = "infer"

\* C7: the 5s delay occurs strictly between consecutive inference calls: the
\* first inference call of a run is never preceded by the delay, and every
\* later inference call is preceded by it.
C7_DelayStrictlyBetweenInferenceCalls ==
    \A p \in EventsOf("infer") :
        LET earlier == {q \in EventsOf("infer") : q < p}
        IN IF earlier = {}
           THEN \A q \in EventsOf("delay") : q > p
           ELSE \E q \in EventsOf("delay") : q < p /\ \A e \in earlier : e < q

\* where the processing of record i failed: extraction returned null, the
\* prompt could not be built, inference returned its failure message, or the
\* payload after the marker did not parse
FailedAt(i) ==
    \/ \E q \in EventsFor("extract", i) : a_log[q].d.out.text = JsNull
    \/ EventsFor("prompt_threw", i) # {}
    \/ \E q \in EventsFor("store", i) :
        /\ a_log[q].d.via = "gemma"
        /\ \/ a_log[q].d.response = gemmaFailedMsg
           \/ /\ IndexOf(a_log[q].d.response, fixDataMarker) # 0
              /\ a_log[q].d.result.suggested_fix_data = JsNull

\* C8: if processing of record i fails in any step, records i+1..n are still
\* processed and the results reached so far, with a result for record i, are
\* kept and persisted at the end of the run.
C8_FailureDoesNotAbortRun ==
    AnalyzeEnded =>
        \A i \in CandidateIndices :
            FailedAt(i) =>
                /\ \A j \in i..(Len(invoicesToAnalyze) - 1) : EventsFor("store", j) # {}
                /\ a_file = a_results /\ Len(a_file) > 0

\* whether the payload after the first marker of a response fails to parse
UnparseablePayload(response) ==
    /\ IndexOf(response, fixDataMarker) # 0
    /\ LET after == Trim(SubSeq(response, IndexOf(response, fixDataMarker) + 1, Len(response)))
       IN ~JsonValid(IF BracesFound(after)
                     THEN SubSeq(after, IndexOf(after, "{"), LastIndexOf(after, "}"))
                     ELSE after)

\* the entry that a_results holds under a key
ResultUnder(results, key) ==
    LET k == CHOOSE k \in 1..Len(results) : results[k].file_name = key
    IN results[k].result

\* C9: when the response has the marker but the payload after it does not
\* parse, the record's result is stored with the trimmed text before the marker
\* as its diagnosis and a null correction; every inference call is followed by
\* the storing of its record's result, which is persisted at the end.
C9_BadPayloadKeepsDiagnosis ==
    /\ \A p \in EventsOf("store") :
        (a_log[p].d.via = "gemma" /\ UnparseablePayload(a_log[p].d.response)) =>
            LET response == a_log[p].d.response
                later == {q \in EventsOf("store") : q > p /\ a_log[q].d.key = a_log[p].d.key}
            IN /\ a_log[p].d.result.reason_from_gemma =
                    Trim(SubSeq(response, 1, IndexOf(response, fixDataMarker) - 1))
               /\ a_log[p].d.result.suggested_fix_data = JsNull
               /\ a_log[p - 1].ev = "infer" /\ a_log[p - 1].i = a_log[p].i
               /\ later = {} => ResultUnder(a_results, a_log[p].d.key) = a_log[p].d.result
               /\ (later = {} /\ a_pc = "done") =>
                     ResultUnder(a_file, a_log[p].d.key) = a_log[p].d.result
    /\ \A p \in EventsOf("infer") :
        IF p = Len(a_log) THEN a_pc = "inferring"
        ELSE a_log[p + 1].ev = "store" /\ a_log[p + 1].i = a_log[p].i

C9_Witness ==
    /\ a_pc = "done"
    /\ \E p \in EventsOf("store") :
        /\ a_log[p].d.via = "gemma"
        /\ UnparseablePayload(a_log[p].d.response)
        /\ a_log[p].d.result.reason_from_gemma = <<"w">>
        /\ ResultUnder(a_file, a_log[p].d.key) = a_log[p].d.result

\* whether candidate i lacks a mandatory identity field
MissingIdentity(i) ==
    \/ ~DocAt(i).present
    \/ ~Truthy(DocAt(i).file_name)
    \/ ~Truthy(DocAt(i).group_id)
    \/ ~Truthy(DocAt(i).inv_num)

NeverAnalysed(i) ==
    /\ EventsFor("extract", i) = {}
    /\ EventsFor("infer", i) = {}
    /\ EventsFor("prompt_threw", i) = {}
    /\ ~(a_i = i /\ a_pc \in {"extracting", "inferring"})

\* C10: a candidate missing group_id, inv_num or the document reference never
\* enters extraction, prompting or inference; it is stored immediately with a
\* skipped diagnosis and a null correction.
C10_MissingIdentityIsSkipped ==
    \A i \in CandidateIndices :
        MissingIdentity(i) =>
            /\ NeverAnalysed(i)
            /\ \A p \in EventsFor("store", i) :
                /\ a_log[p].d.via = "skip"
                /\ a_log[p].d.result.suggested_fix_data = JsNull

\* C10 (as the code has it): a candidate with no document data or with a
\* missing or empty file_name never enters extraction, prompting or inference;
\* the step that takes it up stores it under unknown_file_at_index_<i> with the
\* diagnosis "Skipped: Missing document data or file_name." and a null
\* correction. A candidate that has a file_name is never stored as skipped,
\* whether or not it has group_id and inv_num.
C10_MissingDocumentIsSkipped ==
    \A i \in CandidateIndices :
        IF ~DocAt(i).present \/ ~Truthy(DocAt(i).file_name)
        THEN /\ NeverAnalysed(i)
             /\ (a_i > i \/ (a_i = i /\ a_pc # "record")) =>
                   \E p \in EventsFor("store", i) :
                       /\ a_log[p].d.via = "skip"
                       /\ a_log[p].d.key = SkipKey(DocAt(i), i)
                       /\ a_log[p].d.result.reason_from_gemma = SkippedMsg
                       /\ a_log[p].d.result.suggested_fix_data = JsNull
                       /\ (p > 1 /\ i > 0) => a_log[p - 1].ev = "delay"
        ELSE \A p \in EventsFor("store", i) : a_log[p].d.via # "skip"

C10_Witness ==
    /\ a_pc = "done"
    /\ \E i \in CandidateIndices :
        /\ ~Truthy(DocAt(i).file_name)
        /\ \E p \in EventsFor("store", i) : a_log[p].d.via = "skip"
    /\ \E i \in CandidateIndices :
        /\ DocAt(i).present /\ ~Truthy(DocAt(i).group_id)
        /\ \E p \in EventsFor("store", i) : a_log[p].d.via = "gemma"

\* the candidates of the run that have a file name
CandidatesNamed(fileName) ==
    {i \in CandidateIndices : DocAt(i).present /\ DocAt(i).file_name = fileName}

\* C14: every result stored for an analysed record carries in its
\* original_data_snippet the record's group_id and inv_num and, for a
\* SHIPTOISSUE record, the record's current ship_to, and the plan item that
\* prepareUpdatePlan derives from it has that ship_to (null when the record has
\* none) as its current_ship_to.
C14_SnapshotCarriesCurrentShipTo ==
    /\ \A p \in EventsOf("store") :
        a_log[p].d.via # "skip" =>
            LET doc == DocAt(a_log[p].i)
                snippet == a_log[p].d.result.original_data_snippet
            IN /\ snippet.group_id = doc.group_id
               /\ snippet.inv_num = doc.inv_num
               /\ a_log[p].d.result.report_type = "SHIPTOISSUE" => snippet.ship_to = doc.ship_to
    /\ a_pc = "done" =>
        LET plan == prepareUpdatePlan(a_file)
        IN \A j \in 1..Len(plan) :
              \E i \in CandidatesNamed(plan[j].file_name) :
                  plan[j].current_ship_to =
                      (IF Truthy(DocAt(i).ship_to) THEN DocAt(i).ship_to ELSE Null)

\* candidates whose exception type has no template and that are not skipped
UnregisteredType(i) ==
    /\ invoicesToAnalyze[i + 1].reportType \notin TemplateTypes
    /\ DocAt(i).present /\ Truthy(DocAt(i).file_name)

\* whether the run is past record i
RecordFinished(i) == a_i > i \/ (a_i = i /\ a_pc \in {"delaying", "persist", "done"})

\* C15: for a record whose exception type has no template the prompt is the
\* generic one and building it never fails; the record goes through inference,
\* parsing and storing like a record of a registered type (it is stored
\* without inference only when its evidence is too large or failed), and the
\* run goes on.
C15_UnknownTypeUsesGenericPrompt ==
    \A i \in CandidateIndices :
        UnregisteredType(i) =>
            /\ EventsFor("prompt_threw", i) = {}
            /\ ~(a_pc = "aborted" /\ a_i = i)
            /\ \A p \in EventsFor("infer", i) :
                 /\ a_log[p].d.template = "generic"
                 /\ ~a_log[p].d.threw
            /\ RecordFinished(i) =>
                 \E p \in EventsFor("store", i) :
                     /\ a_log[p].d.key = DocAt(i).file_name
                     /\ a_log[p].d.result.report_type = invoicesToAnalyze[i + 1].reportType
                     /\ IF a_log[p].d.via = "gate"
                        THEN /\ a_log[p - 1].ev = "extract"
                             /\ ~PassesGate(a_log[p].d.result.reason_from_gemma)
                        ELSE /\ a_log[p].d.via = "gemma"
                             /\ a_log[p - 1].ev = "infer" /\ a_log[p - 1].i = i
                             /\ a_log[p].d.result.reason_from_gemma =
                                    ParseResponse(a_log[p].d.response).reason_from_gemma
                             /\ a_log[p].d.result.suggested_fix_data =
                                    ParseResponse(a_log[p].d.response).suggested_fix_data

\* a record of an unregistered type was analysed with a correction parsed from
\* the response, and the record after it was processed too
C15_Witness ==
    /\ a_pc = "done"
    /\ Len(invoicesToAnalyze) = 2
    /\ UnregisteredType(0)
    /\ \E p \in EventsFor("store", 0) :
        a_log[p].d.via = "gemma" /\ a_log[p].d.result.suggested_fix_data # JsNull
    /\ EventsFor("store", 1) # {}

\* C16: for every registered exception type the prompt handed to the inference
\* service has no unresolved {name} slot, and its evidence slot holds the
\* evidence section, the too-large note or the no-evidence note.
C16_NoUnresolvedPlaceholder ==
    \A p \in EventsOf("infer") :
        a_log[p].d.template \in TemplateTypes =>
            /\ a_log[p].d.unresolved = {}
            /\ a_log[p].d.evidence \in {"text", "note", "unavailable"}

\* the exits of extractTextFromPdf through its catch block
ExtractFailureExits == {"writeFile", "access", "pdfinfo", "mkdtemp", "convert", "noPng", "ocr"}

\* every call of extractTextFromPdf that leaves through the catch block
\* returns null
FailedExtractionReturnsNull ==
    \A input \in {"path", "buffer"}, pages \in PageCounts, env \in ExtractEnvs :
        LET call == ExtractCall(input, pages, env)
        IN call.exit \in ExtractFailureExits =>
              (call.out.text = JsNull /\ call.out.text # JsText(warningMessage))

\* C20: when extraction fails, extractTextFromPdf returns null and never the
\* too-large sentinel; the analyzer then stores the record under its file
\* name with the reason "PDF text extraction failed." and a null suggested
\* fix, builds no prompt and calls no inference for it, and goes on to the
\* next record (or to saving the results after the last one).
C20_ExtractionFailureStoredAndRunContinues ==
    /\ FailedExtractionReturnsNull
    /\ \A q \in EventsOf("extract") :
        LET i == a_log[q].i
            out == a_log[q].d.out
            failed == ExitPoint("path", DocAt(i).pages, a_log[q].d.env) \in ExtractFailureExits
        IN /\ failed => out.text = JsNull
           /\ out.text = JsNull =>
                /\ failed
                /\ EventsFor("infer", i) = {} /\ EventsFor("prompt_threw", i) = {}
                /\ a_log[q + 1] = StoreEvent(i, DocAt(i).file_name,
                                      AnalysisResult(DocAt(i), invoicesToAnalyze[i + 1].reportType,
                                                     ExtractionFailedMsg, JsNull),
                                      "gate", ExtractionFailedMsg)
                /\ IF q + 1 < Len(a_log)
                   THEN a_log[q + 2] = Event("delay", i + 1, API_CALL_DELAY_MS)
                   ELSE a_pc = AfterRecord(i) \/ (a_pc = "done" /\ AfterRecord(i) = "persist")

\* extraction failed for the first record, which was stored as failed, and the
\* second record was extracted and sent to inference
C20_Witness ==
    /\ a_pc = "done"
    /\ \E q \in EventsFor("extract", 0) :
        /\ a_log[q].d.out.text = JsNull
        /\ a_log[q + 1].d.result.reason_from_gemma = ExtractionFailedMsg
    /\ EventsFor("infer", 1) # {}
    /\ \E q \in EventsFor("store", 1) : a_log[q].d.via = "gemma"

\* position of a step within the processing of one record: the wait before
\* it, extraction, prompt compilation with the inference call, then parsing
\* with storing
StepRank(ev) ==
    CASE ev = "delay" -> 0
      [] ev = "extract" -> 1
      [] ev \in {"infer", "prompt_threw"} -> 2
      [] ev = "store" -> 3

\* C21: the candidate records are processed strictly one at a time in list
\* order: no step of record i+1 happens before record i is stored, the steps
\* of one record happen only in the order extraction, prompt compilation and
\* inference, parsing and storing, each at most once, so that callGemmaApi is
\* invoked at most once per record.
C21_RecordsProcessedOneAtATimeInOrder ==
    /\ \A p, q \in LogPositions :
          p < q =>
             \/ a_log[p].i < a_log[q].i
             \/ a_log[p].i = a_log[q].i /\ StepRank(a_log[p].ev) < StepRank(a_log[q].ev)
    /\ \A q \in LogPositions :
          /\ a_log[q].i \in CandidateIndices
          /\ a_log[q].i <= a_i
          /\ a_log[q].i > 0 =>
                \E p \in EventsFor("store", a_log[q].i - 1) : p < q
          /\ (a_log[q].ev = "store" /\ a_log[q].d.via = "gemma") =>
                (q > 1 /\ a_log[q - 1].ev = "infer" /\ a_log[q - 1].i = a_log[q].i)
    /\ \A i \in CandidateIndices : Cardinality(EventsFor("infer", i)) <= 1

\* two records were both extracted, sent to inference and stored, the first
\* one completely before the second one
C21_Witness ==
    /\ a_pc = "done"
    /\ Len(invoicesToAnalyze) = 2
    /\ \A i \in {0, 1} :
          /\ EventsFor("extract", i) # {}
          /\ EventsFor("infer", i) # {}
          /\ \E q \in EventsFor("store", i) : a_log[q].d.via = "gemma"

\* the store events of the run, as positions of the log
StoreEvents == EventsOf("store")

\* the candidate list names no document twice under the same exception type
NoCandidateListedTwice ==
    \A i, j \in 1..Len(invoicesToAnalyze) :
        invoicesToAnalyze[i] = invoicesToAnalyze[j] => i = j

\* C24: after a run over n candidate records the persisted mapping holds one
\* result per candidate record (n entries), and the result stored for a
\* record is not overwritten by the result of another record of the run,
\* also when one document is listed under two exception types.
C24_OneResultPerCandidate ==
    (a_pc = "done" /\ NoCandidateListedTwice) =>
        /\ Len(a_file) = Len(invoicesToAnalyze)
        /\ \A q \in StoreEvents :
              \E k \in 1..Len(a_file) :
                  /\ a_file[k].file_name = a_log[q].d.key
                  /\ a_file[k].result = a_log[q].d.result

\* the records of the run that were stored as too large without an inference call
TreatedAsTooLarge ==
    {q \in StoreEvents :
        a_log[q].d.via = "gate" /\ StartsWithTooLarge(a_log[q].d.result.reason_from_gemma)}

\* C25: a record is short-circuited as too large, skipping the inference
\* call, only if pdfinfo reported a page count above the cap of 3: text
\* recognised from a document of at most 3 pages never makes the record be
\* treated as too large, whatever the text contains.
C25_TooLargeOnlyWhenOverCap ==
    \A q \in TreatedAsTooLarge :
        LET i == a_log[q].i
        IN /\ DocAt(i).pages > MAX_PAGES_FOR_ANALYSIS
           /\ \A e \in EventsFor("extract", i) :
                 /\ a_log[e].d.env.pdfinfo = "pages"
                 /\ ~a_log[e].d.out.ranOcr

(***************************************************************************)
(* runAnalysisCycle inside mainAppLoop: the operations the analysis        *)
(* program issues on the Invoices collection.                              *)
(***************************************************************************)
\* cycles of mainAppLoop
MaxCycles == 2
\* report options the user ticks in one cycle
MaxSelected == 2

SELECTION_OPTIONS ==
    <<"PENDING_CONFIRMATION", "INV_AMOUNT_VARIANCE", "ITEM_UNMATCHED", "PO_NOT_FOUND",
      "UNASSIGNED", "SHIPTOISSUE">>

\* the options ticked, in the order of the checkbox list
SelectedOptions(ticked) ==
    LET F[k \in 0..Len(SELECTION_OPTIONS)] ==
            IF k = 0 THEN <<>>
            ELSE IF SELECTION_OPTIONS[k] \in ticked THEN Append(F[k - 1], SELECTION_OPTIONS[k])
            ELSE F[k - 1]
    IN F[Len(SELECTION_OPTIONS)]

\* what getUserInputsForCycle can return (the checkbox demands one option at least)
CycleInputs ==
    {[group_id |-> "G1", selected_options |-> SelectedOptions(ticked),
      suppliers |-> sup, delete_after_fetch |-> del] :
        ticked \in {t \in SUBSET {SELECTION_OPTIONS[k] : k \in 1..Len(SELECTION_OPTIONS)} :
                       Cardinality(t) \in 1..MaxSelected},
        sup \in {<<>>, <<"S1">>},
        del \in BOOLEAN}

\* a document of the collection, with the fields the queries read
InvoiceDoc(invNum, groupId, status, header, lineItem, pendingReason, shipTo, supplier) ==
    [inv_num |-> invNum, group_id |-> groupId, status |-> status, header |-> header,
     line_item |-> lineItem, pending_reason |-> pendingReason, ship_to |-> shipTo,
     supplier |-> supplier, pdf |-> TRUE]

\* contents of the collection when the program starts
CycleStores ==
    {<<InvoiceDoc("I1", "G1", "DISPUTED", {"PO_NOT_FOUND"}, {}, Undefined, "", "S1"),
       InvoiceDoc("I2", "G1", "PENDING_CONFIRMATION", {}, {}, "UNASSIGNED", "A", "S2"),
       InvoiceDoc("I3", "G2", "DISPUTED", {"PO_NOT_FOUND"}, {}, Undefined, Undefined, "S1")>>,
     <<InvoiceDoc("I1", "G1", "DISPUTED", {"INV_AMOUNT_VARIANCE"}, {"ITEM_UNMATCHED"},
                  Undefined, "A", "S1")>>,
     <<InvoiceDoc("I3", "G2", "DISPUTED", {"PO_NOT_FOUND"}, {}, Undefined, Undefined, "S1")>>}

\* buildMongoQueries: the query of one option, as a test on a document
ReportQuery(doc, option, suppliers) ==
    /\ CASE option = "PENDING_CONFIRMATION" -> doc.status = "PENDING_CONFIRMATION"
         [] option = "INV_AMOUNT_VARIANCE" ->
               "INV_AMOUNT_VARIANCE" \in doc.header /\ doc.status = "DISPUTED"
         [] option = "ITEM_UNMATCHED" ->
               "ITEM_UNMATCHED" \in doc.line_item /\ doc.status = "DISPUTED"
         [] option = "PO_NOT_FOUND" ->
               "PO_NOT_FOUND" \in doc.header /\ doc.status = "DISPUTED"
         [] option = "UNASSIGNED" ->
               doc.pending_reason = "UNASSIGNED" /\ doc.status = "PENDING_CONFIRMATION"
         [] option = "SHIPTOISSUE" ->
               /\ "PO_NOT_FOUND" \in doc.header /\ doc.status = "DISPUTED"
               /\ doc.ship_to \in {Undefined, "", Null}
    /\ doc.pdf
    /\ Len(suppliers) > 0 => \E k \in 1..Len(suppliers) : doc.supplier = suppliers[k]

\* const baseQuery = { group_id: group_id, ...reportQueries[option] }
BaseQuery(doc, option, inputs) ==
    doc.group_id = inputs.group_id /\ ReportQuery(doc, option, inputs.suppliers)

\* the documents of a collection that satisfy the base query, in natural order
RECURSIVE Matching(_, _, _)
Matching(docs, option, inputs) ==
    IF docs = <<>> THEN <<>>
    ELSE (IF BaseQuery(Head(docs), option, inputs) THEN <<Head(docs)>> ELSE <<>>)
         \o Matching(Tail(docs), option, inputs)

\* the documents of a collection that do not satisfy the base query
RECURSIVE NotMatching(_, _, _)
NotMatching(docs, option, inputs) ==
    IF docs = <<>> THEN <<>>
    ELSE (IF BaseQuery(Head(docs), option, inputs) THEN <<>> ELSE <<Head(docs)>>)
         \o NotMatching(Tail(docs), option, inputs)

\* an operation issued on the collection
CollectionOp(op, option, inputs) == [op |-> op, option |-> option, inputs |-> inputs]

\* what the operations do to the collection: find reads, deleteMany removes
RECURSIVE ApplyOps(_, _)
ApplyOps(docs, ops) ==
    IF ops = <<>> THEN docs
    ELSE ApplyOps(IF Head(ops).op = "deleteMany"
                  THEN NotMatching(docs, Head(ops).option, Head(ops).inputs)
                  ELSE docs,
                  Tail(ops))

DeleteStep_Executes(option, inputs) ==
    [ops |-> <<CollectionOp("deleteMany", option, inputs)>>, out |-> <<>>]

\* console.log(`db.collection('Invoices').deleteMany(${JSON.stringify(filterForDelete)});`)
DeleteStep(option, inputs) == [ops |-> <<>>, out |-> <<option>>]

\* the loop over selected_options of the if (delete_after_fetch) block
RECURSIVE DeleteSteps(_, _)
DeleteSteps(fetched, inputs) ==
    IF fetched = <<>> THEN [ops |-> <<>>, out |-> <<>>]
    ELSE LET rest == DeleteSteps(Tail(fetched), inputs)
             this == IF Len(Head(fetched).documents) > 0
                     THEN DeleteStep(Head(fetched).option, inputs)
                     ELSE [ops |-> <<>>, out |-> <<>>]
         IN [ops |-> this.ops \o rest.ops, out |-> this.out \o rest.out]

\* allFetchedDocumentsForAnalysis.length
RECURSIVE FetchedCount(_)
FetchedCount(fetched) ==
    IF fetched = <<>> THEN 0 ELSE Len(Head(fetched).documents) + FetchedCount(Tail(fetched))

InitCycle ==
    /\ c_pc = "inputs"
    /\ c_cycle = 1
    /\ cycleInputs = <<>>
    /\ c_store \in CycleStores
    /\ c_k = 0
    /\ fetchedDataByOption = <<>>
    /\ c_ops = <<>>
    /\ c_out = <<>>

\* getUserInputsForCycle, buildMongoQueries, client.db(...).collection(...)
CycleAskInputs ==
    /\ c_pc = "inputs"
    /\ cycleInputs' \in CycleInputs
    /\ c_pc' = "fetching"
    /\ c_k' = 0
    /\ fetchedDataByOption' = <<>>
    /\ c_ops' = <<>>
    /\ c_out' = <<>>
    /\ UNCHANGED <<c_cycle, c_store>>
    /\ UNCHANGED notCycleVars

\* one iteration of for (const option of selected_options): the awaited find,
\* which may reject (the catch of runAnalysisCycle then ends the cycle)
CycleFetch ==
    /\ c_pc = "fetching"
    /\ LET option == cycleInputs.selected_options[c_k + 1]
           op == CollectionOp("find", option, cycleInputs)
       IN /\ c_ops' = Append(c_ops, op)
          /\ c_store' = ApplyOps(c_store, <<op>>)
          /\ \E rejected \in BOOLEAN :
                IF rejected
                THEN /\ c_pc' = "ended"
                     /\ UNCHANGED <<c_k, fetchedDataByOption>>
                ELSE /\ fetchedDataByOption' =
                          Append(fetchedDataByOption,
                                 [option |-> option,
                                  documents |-> Matching(c_store, option, cycleInputs)])
                     /\ c_k' = c_k + 1
                     /\ c_pc' = IF c_k' = Len(cycleInputs.selected_options)
                                THEN "fetched" ELSE "fetching"
    /\ UNCHANGED <<c_cycle, cycleInputs, c_out>>
    /\ UNCHANGED notCycleVars

\* the rest of the try block: metadata file, downloads, the analysis (it gets
\* no handle on the collection; an exception it lets escape skips the rest),
\* and the if (delete_after_fetch) block
CycleProcess ==
    /\ c_pc = "fetched"
    /\ \E analysisThrew \in BOOLEAN :
         LET steps == IF FetchedCount(fetchedDataByOption) > 0 /\ ~analysisThrew
                         /\ cycleInputs.delete_after_fetch
                      THEN DeleteSteps(fetchedDataByOption, cycleInputs)
                      ELSE [ops |-> <<>>, out |-> <<>>]
         IN /\ c_ops' = c_ops \o steps.ops
            /\ c_out' = c_out \o steps.out
            /\ c_store' = ApplyOps(c_store, steps.ops)
    /\ c_pc' = "ended"
    /\ UNCHANGED <<c_cycle, cycleInputs, c_k, fetchedDataByOption>>
    /\ UNCHANGED notCycleVars

\* 'Do you want to run another analysis cycle?'
CycleContinue ==
    /\ c_pc = "ended"
    /\ \E continueAnalysis \in BOOLEAN :
         IF continueAnalysis /\ c_cycle < MaxCycles
         THEN c_pc' = "inputs" /\ c_cycle' = c_cycle + 1
         ELSE c_pc' = "closed" /\ c_cycle' = c_cycle
    /\ UNCHANGED <<cycleInputs, c_store, c_k, fetchedDataByOption, c_ops, c_out>>
    /\ UNCHANGED notCycleVars

NextCycle == CycleAskInputs \/ CycleFetch \/ CycleProcess \/ CycleContinue

InitSpecCycle ==
    /\ InitCycle /\ IdleGemma /\ IdlePlan /\ IdleUpdate /\ IdleParse /\ IdleAnalyze
    /\ IdleExtract /\ IdleScript /\ IdleRerun

SpecCycle == InitSpecCycle /\ [][NextCycle]_vars

\* the options of the cycle for which documents were fetched
OptionsWithDocuments ==
    {fetchedDataByOption[k].option :
        k \in {j \in 1..Len(fetchedDataByOption) : Len(fetchedDataByOption[j].documents) > 0}}

\* C28: the analysis program never writes to or deletes from the record
\* store, in any cycle and for any choice of the user: every operation it
\* issues on the collection is a find, no step changes the collection, and
\* when the user asks for deletion the delete queries are only printed.
C28_AnalysisProgramOnlyReads ==
    /\ [](\A k \in 1..Len(c_ops) : c_ops[k].op = "find")
    /\ [][c_store' = c_store]_vars
    /\ [](\A k \in 1..Len(c_out) : c_out[k] \in OptionsWithDocuments)

\* in the second cycle the user asked for deletion: the delete query of an
\* option with documents was printed and the documents are still there
C28_Witness ==
    /\ c_cycle = 2
    /\ c_pc = "closed"
    /\ cycleInputs.delete_after_fetch
    /\ Len(c_out) > 0
    /\ \E k \in 1..Len(fetchedDataByOption) :
          /\ fetchedDataByOption[k].option = c_out[1]
          /\ fetchedDataByOption[k].documents # <<>>
          /\ fetchedDataByOption[k].documents = Matching(c_store, c_out[1], cycleInputs)

(***************************************************************************)
(* runDbUpdateScript: from the analysis-results file to the writes.        *)
(***************************************************************************)
\* results found in an analysis-results file
ScriptResults ==
    {r \in AnalysisResults :
        /\ r.report_type = "SHIPTOISSUE"
        /\ r.original_data_snippet.t = "object"
        /\ r.original_data_snippet.inv_num = "I1"
        /\ r.original_data_snippet.group_id = "G1"
        /\ \/ r.suggested_fix_data = JsNull
           \/ /\ r.suggested_fix_data.t = "object"
              /\ r.suggested_fix_data.ship_to = "12 Oak St"
              /\ r.suggested_fix_data.confidence \in {JsNumber(85), JsNumber(95)}}

\* the file: missing or not JSON, an empty object, or one or two entries
ScriptFiles ==
    {[readable |-> FALSE, entries |-> <<>>], [readable |-> TRUE, entries |-> <<>>]}
    \cup {[readable |-> TRUE,
           entries |-> [k \in 1..n |-> [file_name |-> FileNames[k], result |-> rs[k]]]] :
             n \in 1..Len(FileNames), rs \in [1..Len(FileNames) -> ScriptResults]}

\* the answers the user can give: to the confirm prompt and to the mode list
UserAnswers == [proceed : BOOLEAN, mode : {"all", "first", "cancel"}]

askForUpdateExecution_CancelProceeds(plannedUpdateCount, answers) ==
    IF plannedUpdateCount = 0 \/ ~answers.proceed
    THEN [proceed |-> FALSE, mode |-> "null"]
    ELSE [proceed |-> TRUE, mode |-> answers.mode]

\* askForUpdateExecution: { proceed: false, mode: null } for an empty plan, a
\* declined confirmation or the choice 'cancel'; { proceed: true, mode } otherwise
askForUpdateExecution(plannedUpdateCount, answers) ==
    IF plannedUpdateCount = 0 \/ ~answers.proceed \/ answers.mode = "cancel"
    THEN [proceed |-> FALSE, mode |-> "null"]
    ELSE [proceed |-> TRUE, mode |-> answers.mode]

\* the items executeDatabaseUpdates issues updateOne for:
\* mode === 'first' ? updatePlan.slice(0, 1) : updatePlan
ItemsWritten(plan, chosenMode) ==
    IF chosenMode = "first" THEN SubSeq(plan, 1, IF Len(plan) > 0 THEN 1 ELSE 0) ELSE plan

InitScript ==
    /\ s_pc = "start"
    /\ s_file \in ScriptFiles
    /\ s_plan = <<>>
    /\ s_answers = [asked |-> FALSE, proceed |-> FALSE, mode |-> "none",
                    choice |-> [proceed |-> FALSE, mode |-> "null"]]
    /\ s_writes = <<>>

\* initializeDbConnection (it may throw), readAnalysisResults, prepareUpdatePlan,
\* and the return for an unreadable file or an empty plan
ScriptReadAndPlan ==
    /\ s_pc = "start"
    /\ \E connected \in BOOLEAN :
         IF ~connected \/ ~s_file.readable
         THEN s_plan' = s_plan /\ s_pc' = "finished"
         ELSE /\ s_plan' = prepareUpdatePlan(s_file.entries)
              /\ s_pc' = IF Len(s_plan') = 0 THEN "finished" ELSE "asking"
    /\ UNCHANGED <<s_file, s_answers, s_writes>>
    /\ UNCHANGED notScriptVars

\* the database prompt, askForUpdateExecution (the mode list is shown only
\* after a confirmation) and if (executionChoice.proceed && executionChoice.mode)
ScriptAsk ==
    /\ s_pc = "asking"
    /\ \E answers \in UserAnswers :
         LET executionChoice == askForUpdateExecution(Len(s_plan), answers)
         IN /\ s_answers' = [asked |-> TRUE, proceed |-> answers.proceed,
                             mode |-> IF answers.proceed THEN answers.mode ELSE "none",
                             choice |-> executionChoice]
            /\ s_pc' = IF executionChoice.proceed /\ executionChoice.mode # "null"
                       THEN "executing" ELSE "finished"
    /\ UNCHANGED <<s_file, s_plan, s_writes>>
    /\ UNCHANGED notScriptVars

\* executeDatabaseUpdates(mongoClient, updatePlan, executionChoice.mode, ...):
\* one updateOne per selected item, none when the collection cannot be obtained
ScriptExecute ==
    /\ s_pc = "executing"
    /\ \E setupThrew \in BOOLEAN :
         s_writes' = IF setupThrew THEN <<>> ELSE ItemsWritten(s_plan, s_answers.choice.mode)
    /\ s_pc' = "finished"
    /\ UNCHANGED <<s_file, s_plan, s_answers>>
    /\ UNCHANGED notScriptVars

NextScript == ScriptReadAndPlan \/ ScriptAsk \/ ScriptExecute

InitSpecScript ==
    /\ InitScript /\ IdleGemma /\ IdlePlan /\ IdleUpdate /\ IdleParse /\ IdleAnalyze
    /\ IdleExtract /\ IdleCycle /\ IdleRerun

SpecScript == InitSpecScript /\ [][NextScript]_vars

\* C29: runDbUpdateScript issues no write unless the update plan is non-empty
\* and the user both confirmed proceeding and chose mode 'all' or 'first';
\* with an empty plan, a declined confirmation, the choice 'cancel' or an
\* analysis-results file that cannot be read, the script ends with zero
\* writes. The writes it issues are writes of items of the plan.
C29_NoWriteWithoutPlanAndConfirmation ==
    /\ s_writes # <<>> =>
          /\ s_file.readable
          /\ Len(s_plan) > 0
          /\ s_answers.asked /\ s_answers.proceed
          /\ s_answers.mode \in {"all", "first"}
          /\ s_writes = ItemsWritten(s_plan, s_answers.mode)
    /\ (\/ ~s_file.readable
        \/ (s_pc # "start" /\ Len(s_plan) = 0)
        \/ (s_answers.asked /\ ~s_answers.proceed)
        \/ s_answers.mode = "cancel") => s_writes = <<>>
    /\ (s_pc \in {"asking", "executing"} \/ s_answers.asked) => Len(s_plan) > 0

\* the user confirmed and chose 'first' for a plan of two items: one write
C29_Witness ==
    /\ s_pc = "finished"
    /\ Len(s_plan) = 2
    /\ s_answers.proceed /\ s_answers.mode = "first"
    /\ s_writes = <<s_plan[1]>>

(***************************************************************************)
(* executeDatabaseUpdates called twice in a row with the same plan and     *)
(* mode, no other client touching the collection.                          *)
(***************************************************************************)
\* plan items: for document I1 a first fill, a change from A to B and a change
\* from B back to A; for document I2 a first fill
RerunItems ==
    {[file_name |-> f, group_id |-> "G1", inv_num |-> i, current_ship_to |-> c,
      suggested_ship_to |-> t, confidence |-> JsNumber(95)] :
        <<f, i, c, t>> \in {<<"a.pdf", "I1", Null, "A">>, <<"b.pdf", "I1", "A", "B">>,
                            <<"c.pdf", "I1", "B", "A">>, <<"d.pdf", "I2", Null, "B">>}}

\* a DISPUTED document with a PO_NOT_FOUND exception
DisputedDoc(invNum, shipTo) ==
    [group_id |-> "G1", inv_num |-> invNum, exception_types |-> {"PO_NOT_FOUND"},
     status |-> "DISPUTED", ship_to |-> shipTo]

\* contents of the collection before the first call; in the last one two
\* documents carry the same group_id and inv_num
RerunStores ==
    {<<DisputedDoc("I1", Undefined), DisputedDoc("I2", Undefined)>>,
     <<DisputedDoc("I1", "A"), DisputedDoc("I2", "")>>,
     <<DisputedDoc("I1", Undefined), DisputedDoc("I1", Undefined)>>}

\* updateOne acts on the first document, in natural order, that matches
FirstMatchIn(docs, item) ==
    LET ms == {d \in 1..Len(docs) : MatchesFilter(docs[d], item)}
    IN IF ms = {} THEN 0 ELSE CHOOSE d \in ms : \A e \in ms : d <= e

WrittenShipTo_ClearsWhenSet(doc, item) ==
    IF Truthy(doc.ship_to) THEN "" ELSE item.suggested_ship_to

\* $set: { ship_to: item.suggested_ship_to }
WrittenShipTo(doc, item) == item.suggested_ship_to

\* one awaited updateOne: it throws, matches nothing, matches without
\* modifying, or modifies the matched document
WriteOne(docs, item, threw) ==
    LET d == FirstMatchIn(docs, item)
    IN IF threw \/ d = 0 THEN [docs |-> docs, modified |-> 0]
       ELSE IF docs[d].ship_to = WrittenShipTo(docs[d], item)
       THEN [docs |-> docs, modified |-> 0]
       ELSE [docs |-> [docs EXCEPT ![d].ship_to = WrittenShipTo(docs[d], item)],
             modified |-> 1]

\* for (const item of itemsToUpdate): throws[k] tells whether the k-th write throws
RECURSIVE RunWrites(_, _, _)
RunWrites(docs, items, throws) ==
    IF items = <<>> THEN [docs |-> docs, modified |-> 0]
    ELSE LET step == WriteOne(docs, Head(items), Head(throws))
             rest == RunWrites(step.docs, Tail(items), Tail(throws))
         IN [docs |-> rest.docs, modified |-> step.modified + rest.modified]

InitRerun ==
    /\ n_pc = "run"
    /\ n_store \in RerunStores
    /\ n_plan \in SeqsUpTo(RerunItems, MaxPlanLen) \ {<<>>}
    /\ n_mode \in {"all", "first"}
    /\ n_runs = <<>>

\* one call of executeDatabaseUpdates from its first line to its return
RerunExecute ==
    /\ n_pc = "run"
    /\ LET items == ItemsWritten(n_plan, n_mode)
       IN \E setupThrew \in BOOLEAN, throws \in [1..Len(items) -> BOOLEAN] :
            LET run == IF setupThrew THEN [docs |-> n_store, modified |-> 0]
                       ELSE RunWrites(n_store, items, throws)
            IN /\ n_store' = run.docs
               /\ n_runs' = Append(n_runs,
                     [before |-> n_store, after |-> run.docs, modified |-> run.modified,
                      errors |-> setupThrew \/ \E k \in 1..Len(items) : throws[k]])
    /\ n_pc' = IF Len(n_runs') = 2 THEN "done" ELSE "run"
    /\ UNCHANGED <<n_plan, n_mode>>
    /\ UNCHANGED notRerunVars

NextRerun == RerunExecute

InitSpecRerun ==
    /\ InitRerun /\ IdleGemma /\ IdlePlan /\ IdleUpdate /\ IdleParse /\ IdleAnalyze
    /\ IdleExtract /\ IdleCycle /\ IdleScript

SpecRerun == InitSpecRerun /\ [][NextRerun]_vars

SelectedItemsNameDistinctRecords ==
    LET items == ItemsWritten(n_plan, n_mode)
    IN \A j, k \in 1..Len(items) :
          (items[j].group_id = items[k].group_id /\ items[j].inv_num = items[k].inv_num)
             => j = k

\* no two documents of the collection carry the same group_id and inv_num
KeysIdentifyOneDocument ==
    \A d, e \in 1..Len(n_store) :
        (n_store[d].group_id = n_store[e].group_id /\ n_store[d].inv_num = n_store[e].inv_num)
           => d = e

====
